---- MODULE Spec2Model ----
(***************************************************************************)
(* Model of the vinci tree enumerator: Tree (src/src/tree.cpp), the core   *)
(* generator and parallel driver (src/src/tree_generator.cpp) and the      *)
(* small-leaf specializer (src/src/tree_optimizer.cpp).                    *)
(*                                                                         *)
(* A Tree is the sequence of its children (children_), a leaf is <<>>.     *)
(* A std::string is the sequence of its character codes, so that           *)
(* std::string's operator< is the lexicographic order on code sequences.   *)
(***************************************************************************)
EXTENDS Integers, Sequences, FiniteSets, TLC

(***************************************************************************)
(* Evaluation helpers                                                      *)
(*                                                                         *)
(* A loop that only appends to a vector is written as the sequence of the  *)
(* values it appends, in the order the loop visits them.  A loop that      *)
(* carries other state (the caches) is a recursive operator over its index *)
(* range lo..hi that runs the first half of the range and then the second  *)
(* half from the state the first left; testing the domain of the state     *)
(* first makes TLC finish the first half before it starts the second.      *)
(***************************************************************************)
Min(a, b) == IF a < b THEN a ELSE b
Max(a, b) == IF a > b THEN a ELSE b
Mid(lo, hi) == (lo + hi) \div 2
Last(s) == s[Len(s)]
\* the sequence (function) with the elements of f, each evaluated once
AsSeq(f) == f \o << >>
AsFcn(f) == f @@ << >>
\* s[lo] \o s[lo + 1] \o ... \o s[hi]
RECURSIVE FlattenRange(_, _, _)
FlattenRange(s, lo, hi) ==
    IF lo > hi THEN << >>
    ELSE IF lo = hi THEN s[lo]
    ELSE FlattenRange(s, lo, Mid(lo, hi)) \o FlattenRange(s, Mid(lo, hi) + 1, hi)
\* the concatenation of the sequences ss[1], ss[2], ..., each evaluated first
Flatten(ss) ==
    LET s == AsSeq(ss)
    IN  IF Len(s) = 0 THEN << >> ELSE FlattenRange(s, 1, Len(s))

(***************************************************************************)
(* Tree                                                                    *)
(***************************************************************************)
LPAREN == 40
RPAREN == 41
COMMA == 44

Leaf == << >>

\* Tree::getNodeCount: 1 + the node counts of the children.  (Here and in
\* the other recursive members a node with one child has its own branch,
\* the general loop run for a single child, which keeps the evaluation of
\* long chains shallow.)
RECURSIVE getNodeCount(_)
getNodeCount(t) ==
    IF Len(t) = 1 THEN 1 + getNodeCount(t[1])
    ELSE LET F[i \in 0..Len(t)] ==
                 IF i = 0 THEN 1 ELSE F[i - 1] + getNodeCount(t[i])
         IN  F[Len(t)]

\* Tree::getLeafCount: 1 for a leaf, else the leaf counts of the children
RECURSIVE getLeafCount(_)
getLeafCount(t) ==
    IF Len(t) = 1 THEN getLeafCount(t[1])
    ELSE IF Len(t) = 0 THEN 1
    ELSE LET F[i \in 0..Len(t)] ==
                 IF i = 0 THEN 0 ELSE F[i - 1] + getLeafCount(t[i])
         IN  F[Len(t)]

\* Tree::toString: "()" for a leaf, else "(" children joined by "," ")"
RECURSIVE toString(_)
toString(t) ==
    IF Len(t) = 1 THEN <<LPAREN>> \o toString(t[1]) \o <<RPAREN>>
    ELSE IF Len(t) = 0 THEN <<LPAREN, RPAREN>>
    ELSE LET F[i \in 1..Len(t)] ==
                 IF i = 1 THEN <<LPAREN>> \o toString(t[1])
                 ELSE F[i - 1] \o <<COMMA>> \o toString(t[i])
         IN  F[Len(t)] \o <<RPAREN>>

\* std::string operator< : lexicographic on character codes; the first
\* position where the two strings differ decides, a proper prefix is less
StrLess(a, b) ==
    LET n == Min(Len(a), Len(b))
        diff == {i \in 1..n : a[i] # b[i]}
    IN  IF diff = {} THEN Len(a) < Len(b)
        ELSE LET i == CHOOSE j \in diff : \A k \in diff : j <= k
             IN  a[i] < b[i]

\* Tree::operator< and Tree::operator==
TreeLess(a, b) == StrLess(toString(a), toString(b))
TreeEq(a, b) == toString(a) = toString(b)

\* the children put in reverse order
SortTreesReversed(s) == [i \in 1..Len(s) |-> s[Len(s) + 1 - i]]
\* the sort with the comparison turned round
SortTreesDescending(s) == SortSeq(s, LAMBDA a, b : TreeLess(b, a))
\* std::sort(children_.begin(), children_.end()) with Tree::operator<
SortTrees(s) == SortSeq(s, TreeLess)

\* the sort of the children without the recursion into them
sortToCanonicalShallow(t) == SortTrees(t)
\* Tree::sortToCanonical: sort every child recursively, then the children
RECURSIVE sortToCanonical(_)
sortToCanonical(t) ==
    IF Len(t) = 1 THEN <<sortToCanonical(t[1])>>
    ELSE LET Sorted[i \in 0..Len(t)] ==      \* for (auto& child : children_)
                 IF i = 0 THEN << >>
                 ELSE Append(Sorted[i - 1], sortToCanonical(t[i]))
         IN  SortTrees(Sorted[Len(t)])

\* Tree::Tree(const std::vector<Tree>&)
TreeOf(children) == sortToCanonical(children)
\* Tree::addChild
addChild(t, child) == Append(t, child)

\* tree.sortToCanonical() for every tree of a vector
Canonical(roots) == AsSeq([k \in 1..Len(roots) |-> sortToCanonical(roots[k])])
\* if (seen.find(repr) == seen.end()) { seen.insert(repr); push_back(tree); }
\* over the trees in order: a tree is kept iff no earlier tree has its repr
FirstOccurrences(trees) ==
    LET reprs == AsSeq([k \in 1..Len(trees) |-> toString(trees[k])])
        IsFirst(k) == \A j \in 1..(k - 1) : reprs[j] # reprs[k]
        kept == SelectSeq(AsSeq([k \in 1..Len(trees) |-> k]), IsFirst)
    IN  AsSeq([i \in 1..Len(kept) |-> trees[kept[i]]])

(***************************************************************************)
(* TreeGenerator: partitions, Cartesian product, memoized recursion        *)
(***************************************************************************)
\* std::sort(partition.begin(), partition.end(), std::greater<size_t>())
SortDesc(s) == SortSeq(s, LAMBDA x, y : x > y)

\* the upper bound of a part without the look at the part before it
maxValUnordered(n, current) == n
\* size_t maxVal = current.empty() ? n : std::min(n, current.back())
maxVal(n, current) == IF Len(current) = 0 THEN n ELSE Min(n, Last(current))

\* TreeGenerator::generatePartitions(n, k, current, result): returns result
RECURSIVE generatePartitions(_, _, _, _)
RECURSIVE generatePartitionsLoop(_, _, _, _, _, _)
generatePartitions(n, k, current, result) ==
    IF n = 0 THEN Append(result, current)
    ELSE IF k = 0 THEN result
    ELSE LET minVal == 1
         IN  generatePartitionsLoop(n, k, current, result, minVal,
                                    maxVal(n, current))
\* for (i = lo; i <= hi; ++i) { push i; recurse; pop }
generatePartitionsLoop(n, k, current, result, lo, hi) ==
    IF Len(result) < 0 \/ lo > hi THEN result
    ELSE IF lo = hi
    THEN generatePartitions(n - lo, k - 1, Append(current, lo), result)
    ELSE generatePartitionsLoop(n, k, current,
             generatePartitionsLoop(n, k, current, result, lo, Mid(lo, hi)),
             Mid(lo, hi) + 1, hi)

\* sum of getLeafCount over the children chosen so far
SumLeaves(current) ==
    LET F[i \in 0..Len(current)] ==
            IF i = 0 THEN 0 ELSE F[i - 1] + getLeafCount(current[i])
    IN  F[Len(current)]

\* the early test with < in place of <=
WithinLimitStrict(currentLeaves, maxLeaves) == currentLeaves < maxLeaves
\* if (currentLeaves <= maxLeaves), the early pruning test
WithinLimit(currentLeaves, maxLeaves) == currentLeaves <= maxLeaves

\* TreeGenerator::generateCombinations(partition, maxLeaves, childTrees,
\* index, current, results): returns results.  index counts from 0 as in the
\* code; childTrees[index] of the code is childTrees[index + 1] here.
RECURSIVE generateCombinations(_, _, _, _, _, _)
RECURSIVE generateCombinationsLoop(_, _, _, _, _, _, _, _)
generateCombinations(partition, maxLeaves, childTrees, index, current, results) ==
    IF index = Len(partition)
    THEN LET candidate == TreeOf(current)
         IN  IF getLeafCount(candidate) <= maxLeaves
             THEN Append(results, candidate)
             ELSE results
    ELSE generateCombinationsLoop(partition, maxLeaves, childTrees, index,
                                  current, results,
                                  1, Len(childTrees[index + 1]))
\* for (const auto& tree : childTrees[index]), the trees lo..hi of the list
generateCombinationsLoop(partition, maxLeaves, childTrees, index, current, results, lo, hi) ==
    IF Len(results) < 0 \/ lo > hi THEN results
    ELSE IF lo = hi
    THEN LET pushed == Append(current, childTrees[index + 1][lo])
             currentLeaves == SumLeaves(pushed)
         IN  IF WithinLimit(currentLeaves, maxLeaves)
             THEN generateCombinations(partition, maxLeaves, childTrees,
                                       index + 1, pushed, results)
             ELSE results
    ELSE generateCombinationsLoop(partition, maxLeaves, childTrees, index,
             current,
             generateCombinationsLoop(partition, maxLeaves, childTrees, index,
                                      current, results, lo, Mid(lo, hi)),
             Mid(lo, hi) + 1, hi)

\* the deduplication loop that ends generateTreesRecursive
DedupCanonical(results) == FirstOccurrences(Canonical(results))

\* An empty cache of the shape cache_.resize(n + 1), level.resize(m + 1)
EmptyCache(n, m) == AsFcn([i \in 0..n |-> AsFcn([j \in 0..m |-> << >>])])

FanoutRemaining == 12
FanoutLeaves == 4

(***************************************************************************)
(* generateTreesRecursive(n, maxLeaves, results, localCache).              *)
(* c = [local |-> localCache, shared |-> this->cache_, written |-> the     *)
(* keys of this->cache_ assigned so far, stored |-> the keys of localCache *)
(* assigned so far]; alias says that localCache IS cache_ (the sequential  *)
(* path and prewarmCache), in which case only c.local is used.  Returns    *)
(* [results, c].                                                           *)
(***************************************************************************)
\* the caches of a call: localCache, this->cache_, and no key assigned yet
Caches(localCache, member) ==
    [local |-> localCache, shared |-> member, written |-> {}, stored |-> {}]
\* cache_[n][maxLeaves] = results, the assignment of the base case
WriteMember(c, alias, n, maxLeaves, v) ==
    IF alias
    THEN [c EXCEPT !.local[n][maxLeaves] = v,
                   !.written = @ \cup {<<n, maxLeaves>>}]
    ELSE [c EXCEPT !.shared[n][maxLeaves] = v,
                   !.written = @ \cup {<<n, maxLeaves>>}]

RECURSIVE generateTreesRecursive(_, _, _, _)
RECURSIVE ChildOptions(_, _, _, _, _, _)
RECURSIVE PartitionsLoop(_, _, _, _, _, _)
RECURSIVE NumChildrenLoop(_, _, _, _, _, _)
RECURSIVE FanoutLoop(_, _, _, _, _, _)

\* for (i...) generateTreesRecursive(partition[i], ...); break when empty
ChildOptions(partition, maxLeaves, c, alias, i, opts) ==
    IF i > Len(partition) THEN [valid |-> TRUE, c |-> c, opts |-> opts]
    ELSE LET r == generateTreesRecursive(partition[i], maxLeaves, c, alias)
         IN  IF Len(r.results) = 0
             THEN [valid |-> FALSE, c |-> r.c, opts |-> opts]
             ELSE ChildOptions(partition, maxLeaves, r.c, alias, i + 1,
                               Append(opts, r.results))

\* body of for (auto& partition : partitions), st = [c, results]
ProcessPartition(partition0, maxLeaves, st, alias) ==
    LET partition == SortDesc(partition0)
        co == ChildOptions(partition, maxLeaves, st.c, alias, 1, << >>)
    IN  [c |-> co.c,
         results |-> IF co.valid
                     THEN generateCombinations(partition, maxLeaves, co.opts,
                                               0, << >>, st.results)
                     ELSE st.results]

\* for (auto& partition : partitions), partition = partitions[lo..hi]
PartitionsLoop(partitions, maxLeaves, st, alias, lo, hi) ==
    IF DOMAIN st = {} \/ lo > hi THEN st
    ELSE IF lo = hi THEN ProcessPartition(partitions[lo], maxLeaves, st, alias)
    ELSE PartitionsLoop(partitions, maxLeaves,
             PartitionsLoop(partitions, maxLeaves, st, alias, lo, Mid(lo, hi)),
             alias, Mid(lo, hi) + 1, hi)

\* sequential branch: for (numChildren = lo; numChildren <= hi; ++numChildren)
NumChildrenLoop(remainingNodes, maxLeaves, st, alias, lo, hi) ==
    IF DOMAIN st = {} \/ lo > hi THEN st
    ELSE NumChildrenLoop(remainingNodes, maxLeaves,
             LET partitions == generatePartitions(remainingNodes, lo, << >>, << >>)
             IN  PartitionsLoop(partitions, maxLeaves, st, alias, 1, Len(partitions)),
             alias, lo + 1, hi)

\* nested fan-out: one thread per numChildren in lo..hi, each on its own copy
\* of localCache taken when it is spawned, writing threadResults[numChildren-1]
\* and (in the base case) this->cache_; results are concatenated after join.
\* This operator gives the schedule in which the threads run one after the
\* other, each to its end before threads.clear() requests its stop; a thread
\* that sees stop_requested (lines 423, 431) returns with fewer results.  The
\* branch needs n >= 14 and maxLeaves >= 5.
FanoutLoop(remainingNodes, maxLeaves, st, alias, lo, hi) ==
    IF DOMAIN st = {} \/ lo > hi THEN st
    ELSE IF lo = hi
    THEN LET member == IF alias THEN st.c.local ELSE st.c.shared
             partitions == generatePartitions(remainingNodes, lo, << >>, << >>)
             r == PartitionsLoop(partitions, maxLeaves,
                      [c |-> [local |-> st.c.local, shared |-> member,
                              written |-> st.c.written,
                              stored |-> {}],
                       results |-> << >>],
                      FALSE, 1, Len(partitions))
         IN  [c |-> IF alias
                    THEN [st.c EXCEPT !.local = r.c.shared,
                                      !.written = r.c.written]
                    ELSE [st.c EXCEPT !.shared = r.c.shared,
                                      !.written = r.c.written],
              results |-> st.results \o r.results]
    ELSE FanoutLoop(remainingNodes, maxLeaves,
             FanoutLoop(remainingNodes, maxLeaves, st, alias, lo, Mid(lo, hi)),
             alias, Mid(lo, hi) + 1, hi)

\* the tail of generateTreesRecursive losing the last unique tree
StoreUniqueDropLast(n, maxLeaves, r) ==
    IF DOMAIN r = {} THEN r
    ELSE LET unique == DedupCanonical(r.results)
             uniqueResults == IF Len(unique) >= 2
                              THEN SubSeq(unique, 1, Len(unique) - 1)
                              ELSE unique
         IN  [results |-> uniqueResults,
              c |-> [r.c EXCEPT !.local[n][maxLeaves] = uniqueResults,
                                !.stored = @ \cup {<<n, maxLeaves>>}]]
\* the tail of generateTreesRecursive: deduplicate, store in localCache
StoreUnique(n, maxLeaves, r) ==
    IF DOMAIN r = {} THEN r
    ELSE LET uniqueResults == DedupCanonical(r.results)
         IN  [results |-> uniqueResults,
              c |-> [r.c EXCEPT !.local[n][maxLeaves] = uniqueResults,
                                !.stored = @ \cup {<<n, maxLeaves>>}]]

\* the base case with the test of maxLeaves left out
SingleNodeUnbounded(maxLeaves) == <<Leaf>>
\* base case, n == 1: the leaf when a leaf is allowed
SingleNode(maxLeaves) == IF maxLeaves >= 1 THEN <<Leaf>> ELSE << >>

generateTreesRecursive(n, maxLeaves, c, alias) ==
    IF Len(c.local[n][maxLeaves]) # 0
    THEN [results |-> c.local[n][maxLeaves], c |-> c]
    ELSE IF n = 1
    THEN LET results == SingleNode(maxLeaves)
         IN  [results |-> results,
              c |-> WriteMember(c, alias, n, maxLeaves, results)]
    ELSE StoreUnique(n, maxLeaves,
             IF n - 1 > FanoutRemaining /\ maxLeaves > FanoutLeaves
             THEN FanoutLoop(n - 1, maxLeaves, [c |-> c, results |-> << >>],
                             alias, 1, n - 1)
             ELSE NumChildrenLoop(n - 1, maxLeaves, [c |-> c, results |-> << >>],
                                  alias, 1, n - 1))

(***************************************************************************)
(* TreeOptimizer: the small-leaf specializer                               *)
(*                                                                         *)
(* A loop nest that only appends to a vector is written as the sequence of *)
(* the values it appends, in the order the loops visit them: the index     *)
(* tuples of the nest in lexicographic order, filtered by the loop bounds  *)
(* and the continue-conditions.                                            *)
(***************************************************************************)
\* values of (a, b) resp. (a, b, c) of nested loops over 1..r, outermost first
Pairs(r) == AsSeq([k \in 1..(r * r) |-> <<((k - 1) \div r) + 1, ((k - 1) % r) + 1>>])
Triples(r) ==
    AsSeq([k \in 1..(r * r * r) |->
              <<((k - 1) \div (r * r)) + 1, (((k - 1) \div r) % r) + 1,
                ((k - 1) % r) + 1>>])


\* generateSingleLeaf builds root -> child -> ... -> leaf with n nodes
RECURSIVE ChainOf(_)
ChainOf(n) == IF n <= 1 THEN Leaf ELSE <<ChainOf(n - 1)>>
\* generateSingleLeaf with one node too many
generateSingleLeafLong(n, results) == Append(results, ChainOf(n + 1))
generateSingleLeaf(n, results) == Append(results, ChainOf(n))

\* generateTwoLeaves: the roots pushed for leftChainSize = 1..remaining-1
TwoChains(remaining) ==
    LET Visited(leftChainSize) ==
            /\ leftChainSize <= remaining - 1
            /\ ~(remaining - leftChainSize < 1)
            /\ ~(leftChainSize < remaining - leftChainSize)
        sizes == SelectSeq(AsSeq([k \in 1..remaining |-> k]), Visited)
    IN  AsSeq([k \in 1..Len(sizes) |->
                  addChild(addChild(Leaf,
                      generateSingleLeaf(remaining - sizes[k], << >>)[1]),
                      generateSingleLeaf(sizes[k], << >>)[1])])
\* generateTwoLeaves that asks for four nodes
generateTwoLeavesFromFour(n, results) ==
    IF n < 4 THEN results
    ELSE results \o Canonical(TwoChains(n - 1))
generateTwoLeaves(n, results) ==
    IF n < 3 THEN results
    ELSE results \o Canonical(TwoChains(n - 1))

\* generateThreeLeaves, case 1: root with three chains, sizes a >= b >= c
ThreeChains(remaining) ==
    LET Visited(p) ==
            LET a == p[1]
                b == p[2]
                c == remaining - a - b
            IN  /\ a <= remaining - 2
                /\ b <= remaining - a - 1
                /\ ~(c < 1)
                /\ SortDesc(<<a, b, c>>) = <<a, b, c>>
        ab == SelectSeq(Pairs(remaining), Visited)
    IN  AsSeq([k \in 1..Len(ab) |->
                  <<ChainOf(remaining - ab[k][1] - ab[k][2]),
                    ChainOf(ab[k][2]), ChainOf(ab[k][1])>>])
\* case 2: root with a chain and a two-leaf tree
ThreeChainAndTwo(remaining) ==
    Flatten([singleChainSize \in 1..(remaining - 2) |->
                LET twoLeafTreeSize == remaining - singleChainSize
                    singleChain == generateSingleLeaf(singleChainSize, << >>)
                    twoLeafTrees == generateTwoLeaves(twoLeafTreeSize, << >>)
                IN  IF twoLeafTreeSize < 2 THEN << >>
                    ELSE [k \in 1..Len(twoLeafTrees) |->
                             <<singleChain[1], twoLeafTrees[k]>>]])
generateThreeLeaves(n, results) ==
    IF n < 4 THEN results
    ELSE LET remaining == n - 1
         IN  results \o FirstOccurrences(Canonical(
                 ThreeChains(remaining) \o ThreeChainAndTwo(remaining)))

\* generateFourLeaves, case 1: root with four chains, sizes a >= b >= c >= d
FourChains(remaining) ==
    LET Visited(p) ==
            LET a == p[1]
                b == p[2]
                c == p[3]
                d == remaining - a - b - c
            IN  /\ a <= remaining - 3
                /\ b <= remaining - a - 2
                /\ c <= remaining - a - b - 1
                /\ ~(d < 1)
                /\ SortDesc(<<a, b, c, d>>) = <<a, b, c, d>>
        abc == SelectSeq(Triples(remaining), Visited)
    IN  AsSeq([k \in 1..Len(abc) |->
                  <<ChainOf(remaining - abc[k][1] - abc[k][2] - abc[k][3]),
                    ChainOf(abc[k][3]), ChainOf(abc[k][2]), ChainOf(abc[k][1])>>])
\* case 2: root with two chains and a two-leaf tree
FourTwoChainsAndTwo(remaining) ==
    LET Visited(p) ==
            /\ p[1] <= remaining - 3
            /\ p[2] <= remaining - p[1] - 2
            /\ ~(remaining - p[1] - p[2] < 2)
        sizes == SelectSeq(Pairs(remaining), Visited)
    IN  Flatten([s \in 1..Len(sizes) |->
                    LET chain1Size == sizes[s][1]
                        chain2Size == sizes[s][2]
                        twoLeafTreeSize == remaining - chain1Size - chain2Size
                        singleChain1 == generateSingleLeaf(chain1Size, << >>)
                        singleChain2 == generateSingleLeaf(chain2Size, << >>)
                        twoLeafTrees == generateTwoLeaves(twoLeafTreeSize, << >>)
                    IN  [k \in 1..Len(twoLeafTrees) |->
                            <<singleChain1[1], singleChain2[1], twoLeafTrees[k]>>]])
\* case 3: root with a chain and a three-leaf tree
FourChainAndThree(remaining) ==
    Flatten([singleChainSize \in 1..(remaining - 3) |->
                LET threeLeafTreeSize == remaining - singleChainSize
                    singleChain == generateSingleLeaf(singleChainSize, << >>)
                    threeLeafTrees == generateThreeLeaves(threeLeafTreeSize, << >>)
                IN  IF threeLeafTreeSize < 3 THEN << >>
                    ELSE [k \in 1..Len(threeLeafTrees) |->
                             <<singleChain[1], threeLeafTrees[k]>>]])
\* case 4: root with two two-leaf trees; tree2 varies fastest
FourTwoAndTwo(remaining) ==
    Flatten([i \in 1..(remaining - 3) |->
                LET tree1Size == i + 1
                    tree2Size == remaining - tree1Size
                    twoLeafTrees1 == generateTwoLeaves(tree1Size, << >>)
                    twoLeafTrees2 == generateTwoLeaves(tree2Size, << >>)
                    n2 == Len(twoLeafTrees2)
                IN  IF tree2Size < 2 \/ n2 = 0 THEN << >>
                    ELSE [k \in 1..(Len(twoLeafTrees1) * n2) |->
                             <<twoLeafTrees1[((k - 1) \div n2) + 1],
                               twoLeafTrees2[((k - 1) % n2) + 1]>>]])
\* results.clear() precedes the four cases
generateFourLeaves(n, results) ==
    IF n < 4 THEN results
    ELSE LET remaining == n - 1
         IN  FirstOccurrences(Canonical(
                 FourChains(remaining) \o FourTwoChainsAndTwo(remaining)
                 \o FourChainAndThree(remaining) \o FourTwoAndTwo(remaining)))

\* size_t arithmetic wraps around.  The word of the model has SizeBits bits
\* (size_t has 64): the values are 0..SizeMax.
SizeBits == 4
SizeMax == 2 ^ SizeBits - 1
SizeSub(a, b) == (a - b) % (SizeMax + 1)
SizeMul(a, b) == (a * b) % (SizeMax + 1)

\* TreeOptimizer::generateIntegerPartitions(n, k, minPart, current, result);
\* st = [result, terminates].  With maxPart = SIZE_MAX the test
\* part <= maxPart of the loop holds for every part and ++part wraps to 0:
\* the loop has no end, and st.terminates becomes FALSE.
RECURSIVE generateIntegerPartitions(_, _, _, _, _)
RECURSIVE generateIntegerPartitionsLoop(_, _, _, _, _, _, _)
generateIntegerPartitions(n, k, minPart, current, st) ==
    IF ~st.terminates THEN st
    ELSE IF k = 0
    THEN IF n = 0 THEN [st EXCEPT !.result = Append(@, current)] ELSE st
    ELSE IF n = 0 THEN st
    ELSE LET first == SizeSub(n, SizeMul(k - 1, minPart))
             maxPart == IF Len(current) # 0 THEN Min(first, Last(current))
                        ELSE first
         IN  IF first < minPart THEN st
             ELSE IF maxPart = SizeMax THEN [st EXCEPT !.terminates = FALSE]
             ELSE generateIntegerPartitionsLoop(n, k, minPart, current, st,
                                                minPart, maxPart)
\* for (part = lo; part <= hi; ++part) { push part; recurse; pop }
generateIntegerPartitionsLoop(n, k, minPart, current, st, lo, hi) ==
    IF ~st.terminates \/ lo > hi THEN st
    ELSE IF lo = hi
    THEN generateIntegerPartitions(SizeSub(n, lo), k - 1, minPart,
                                   Append(current, lo), st)
    ELSE generateIntegerPartitionsLoop(n, k, minPart, current,
             generateIntegerPartitionsLoop(n, k, minPart, current, st,
                                           lo, Mid(lo, hi)),
             Mid(lo, hi) + 1, hi)

\* buildCacheParallel, the leafCount <= 4 branch for one leafCount:
\* for (nodeCount = leafCount; nodeCount <= maxN; ++nodeCount) fills
\* cache[nodeCount][leafCount], every call reading only its own slot
SpecializedLevel(leafCount, maxN, cache) ==
    AsFcn([nodeCount \in DOMAIN cache |->
        IF nodeCount < leafCount \/ nodeCount > maxN THEN cache[nodeCount]
        ELSE [cache[nodeCount] EXCEPT ![leafCount] =
                 CASE leafCount = 1 -> generateSingleLeaf(nodeCount, @)
                   [] leafCount = 2 -> generateTwoLeaves(nodeCount, @)
                   [] leafCount = 3 -> generateThreeLeaves(nodeCount, @)
                   [] leafCount = 4 -> generateFourLeaves(nodeCount, @)]])
\* for (leafCount = 1; leafCount <= maxK; ++leafCount); the levels above 4
\* run on std::async workers and are not entered for maxK <= 4
RECURSIVE buildCacheLevels(_, _, _)
buildCacheLevels(maxN, leafCount, cache) ==
    IF leafCount = 0 THEN cache
    ELSE LET below == buildCacheLevels(maxN, leafCount - 1, cache)
         IN  CASE leafCount <= 4 -> SpecializedLevel(leafCount, maxN, below)
buildCacheParallel(maxN, maxK, cache) == buildCacheLevels(maxN, maxK, cache)

\* for (size_t mn : minNodes) minRequired += mn
SumParts(parts) ==
    LET F[i \in 0..Len(parts)] == IF i = 0 THEN 0 ELSE F[i - 1] + parts[i]
    IN  F[Len(parts)]

\* the lambda buildCombinations(idx, current) of
\* generateWithExactLeavesGeneric: the roots over the Cartesian product of
\* childOptions, the first child varying slowest, children added in order
RECURSIVE buildCombinations(_, _, _)
buildCombinations(childOptions, idx, current) ==
    IF idx = Len(childOptions) THEN <<current>>
    ELSE Flatten([j \in 1..Len(childOptions[idx + 1]) |->
             buildCombinations(childOptions, idx + 1,
                               Append(current, childOptions[idx + 1][j]))])

\* generateIntegerPartitions called with empty current and result
IntegerPartitions(n, k, minPart) ==
    generateIntegerPartitions(n, k, minPart, << >>,
        [result |-> << >>, terminates |-> TRUE]).result

\* TreeOptimizer::generateWithExactLeavesGeneric(n, k, results, cache):
\* returns results.  The candidates in the order of the loops over
\* numChildren, leafPart and nodeDist, then sortToCanonical and the test
\* against seen.
generateWithExactLeavesGeneric(n, k, cache) ==
    IF k = 0 \/ k > n \/ n < k THEN << >>
    ELSE
    LET remaining == n - 1
        ForNodeDist(leafPart, nodeDist) ==
            LET numChildren == Len(leafPart)
                childNodeCounts == [i \in 1..numChildren |->
                                       leafPart[i] + nodeDist[i] - 1]
                valid == \A i \in 1..numChildren :
                            ~(childNodeCounts[i] < leafPart[i])
                Usable(i) ==
                    /\ ~(childNodeCounts[i] < leafPart[i])
                    /\ childNodeCounts[i] \in DOMAIN cache
                    /\ leafPart[i] \in DOMAIN cache[childNodeCounts[i]]
                    /\ Len(cache[childNodeCounts[i]][leafPart[i]]) # 0
                childOptions == [i \in 1..numChildren |->
                                    cache[childNodeCounts[i]][leafPart[i]]]
            IN  IF valid /\ \A i \in 1..numChildren : Usable(i)
                THEN buildCombinations(childOptions, 0, << >>)
                ELSE << >>
        ForLeafPart(leafPart) ==
            LET numChildren == Len(leafPart)
                minRequired == SumParts(leafPart)
                extraNodes == remaining - minRequired
                nodeDistributions ==
                    IntegerPartitions(extraNodes + numChildren, numChildren, 1)
            IN  IF remaining < minRequired THEN << >>
                ELSE Flatten([d \in 1..Len(nodeDistributions) |->
                         ForNodeDist(leafPart, nodeDistributions[d])])
        ForNumChildren(numChildren) ==
            LET leafPartitions == IntegerPartitions(k, numChildren, 1)
            IN  Flatten([p \in 1..Len(leafPartitions) |->
                    ForLeafPart(leafPartitions[p])])
    IN  FirstOccurrences(Canonical(
            Flatten([numChildren \in 1..Min(k, remaining) |->
                        ForNumChildren(numChildren)])))

\* generateWithExactLeaves, k >= 5, one leafCount >= 5: for (nodeCount =
\* from; nodeCount <= n; ++nodeCount) fills cache[nodeCount][leafCount], each
\* call seeing the slots filled before it
RECURSIVE GenericLevel(_, _, _, _)
GenericLevel(leafCount, from, n, cache) ==
    IF from > n THEN cache
    ELSE GenericLevel(leafCount, from + 1, n,
             [cache EXCEPT ![from][leafCount] =
                 generateWithExactLeavesGeneric(from, leafCount, cache)])
\* for (leafCount = 1; leafCount <= k; ++leafCount)
RECURSIVE ExactLeavesLevels(_, _, _)
ExactLeavesLevels(n, leafCount, cache) ==
    IF leafCount = 0 THEN cache
    ELSE LET below == ExactLeavesLevels(n, leafCount - 1, cache)
         IN  IF leafCount <= 4 THEN SpecializedLevel(leafCount, n, below)
             ELSE GenericLevel(leafCount, leafCount, n, below)
\* TreeOptimizer::generateWithExactLeaves(n, k, results): returns results
generateWithExactLeaves(n, k) ==
    IF k = 0 \/ k > n THEN << >>
    ELSE IF k = 1 THEN generateSingleLeaf(n, << >>)
    ELSE IF k = 2 THEN generateTwoLeaves(n, << >>)
    ELSE IF k = 3 THEN generateThreeLeaves(n, << >>)
    ELSE IF k = 4 THEN generateFourLeaves(n, << >>)
    ELSE ExactLeavesLevels(n, k, EmptyCache(n, k))[n][k]

\* the trees handed to the callback, in order: cache[n][1], ..., cache[n][maxM]
\* (totalCount is the length of this sequence)
generateAllWithCallback(n, maxM) ==
    LET cache == buildCacheParallel(n, maxM, EmptyCache(n, maxM))
    IN  Flatten([leafCount \in 1..maxM |-> cache[n][leafCount]])

(***************************************************************************)
(* TreeGenerator::generate                                                 *)
(***************************************************************************)
\* A size_t number of bytes, gib * 2^30 + rest with rest < 2^30 (TLC's
\* integers have 32 bits): b = 0 and b / (1024 * 1024 * 1024)
Bytes(gib, rest) == [gib |-> gib, rest |-> rest]
IsZeroBytes(b) == b.gib = 0 /\ b.rest = 0
WholeGiB(b) == b.gib
MiB(k) == k * 1048576

\* checkMemoryAvailability(n, m), availableMemory = getAvailableMemory():
\* the value it returns and what it writes to std::cerr
memoryCheck(n, m, availableMemory) ==
    IF IsZeroBytes(availableMemory) THEN [ok |-> TRUE, cerr |-> "none"]
    ELSE LET availableMemoryGB == WholeGiB(availableMemory)
             estimatedMemoryMB == 2 ^ (n \div 3)
             estimatedMemoryGB == estimatedMemoryMB \div 1024
         IN  IF n > 30 THEN [ok |-> FALSE, cerr |-> "error"]
             ELSE IF n >= 25
             THEN IF estimatedMemoryGB > availableMemoryGB
                  THEN [ok |-> FALSE, cerr |-> "error"]
                  ELSE IF estimatedMemoryGB * 2 > availableMemoryGB
                  THEN [ok |-> TRUE, cerr |-> "warning"]
                  ELSE [ok |-> TRUE, cerr |-> "none"]
             ELSE [ok |-> TRUE, cerr |-> "none"]
checkMemoryAvailability(n, m, availableMemory) ==
    memoryCheck(n, m, availableMemory).ok

\* TreeOptimizer::shouldUseOptimized
shouldUseOptimized(n, m) == n >= 15 /\ m <= 4

\* prewarmCache(maxN, maxM): for n = 1..maxN, for m = 1..maxM the k-th call
\* (k = 0, 1, ...) is generateTreesRecursive(n, m, dummy, cache_)
RECURSIVE prewarmLoop(_, _, _, _)
prewarmLoop(maxN, maxM, cache, k) ==
    IF DOMAIN cache = {} \/ k >= maxN * maxM THEN cache
    ELSE prewarmLoop(maxN, maxM,
             generateTreesRecursive((k \div maxM) + 1, (k % maxM) + 1,
                 Caches(cache, << >>), TRUE).c.local,
             k + 1)
prewarmCache(maxN, maxM, cache) == prewarmLoop(maxN, maxM, cache, 0)

\* a cap of four children whatever m is
maxChildrenFour(remainingNodes, m) == Min(remainingNodes, 4)
\* size_t maxChildren = std::min(remainingNodes, std::max(size_t(20), m * 5))
maxChildren(remainingNodes, m) == Min(remainingNodes, Max(20, m * 5))

\* the work list of the parallel driver: for numChildren = 1..maxChildren,
\* every partition of generatePartitions(n - 1, numChildren), sorted descending
AllPartitions(n, m) ==
    LET remainingNodes == n - 1
    IN  Flatten([numChildren \in 1..maxChildren(remainingNodes, m) |->
            LET partitions == generatePartitions(remainingNodes, numChildren,
                                                 << >>, << >>)
            IN  [k \in 1..Len(partitions) |->
                    <<numChildren, SortDesc(partitions[k])>>]])

\* maxThreads from hardware_concurrency() and getTotalMemory()
MaxThreads(hardwareConcurrency, totalMemory) ==
    LET numCores == IF hardwareConcurrency = 0 THEN 4 ELSE hardwareConcurrency
        totalMemoryGB == IF ~IsZeroBytes(totalMemory)
                         THEN WholeGiB(totalMemory) ELSE 8
    IN  IF totalMemoryGB > 64 THEN numCores ELSE Min(numCores, 32)

\* the body of a worker's for (idx = startIdx; idx < endIdx; ++idx) for one
\* partition; st = [c, results] with c.local the worker's threadCache,
\* c.shared this->cache_ and results the worker's threadResults[t]
WorkerPartition(partition, m, st) ==
    LET co == ChildOptions(partition, m, st.c, FALSE, 1, << >>)
    IN  [c |-> co.c,
         results |-> IF co.valid
                     THEN st.results
                          \o generateCombinations(partition, m, co.opts,
                                                  0, << >>, << >>)
                     ELSE st.results]
\* for the partitions allPartitions[lo..hi] (1-based)
RECURSIVE WorkerBatch(_, _, _, _, _)
WorkerBatch(all, m, st, lo, hi) ==
    IF DOMAIN st = {} \/ lo > hi THEN st
    ELSE IF lo = hi THEN WorkerPartition(all[lo][2], m, st)
    ELSE WorkerBatch(all, m, WorkerBatch(all, m, st, lo, Mid(lo, hi)),
                     Mid(lo, hi) + 1, hi)

\* the merge loop without the test on seenGlobal
GlobalDedupKeepAll(results) == Canonical(Flatten(results))
\* the merge loop: trees of threadResults[0], threadResults[1], ... in order,
\* each canonicalized, handed to invokeCallback iff its string is new
GlobalDedup(results) == FirstOccurrences(Canonical(Flatten(results)))

(***************************************************************************)
(* The program: one TreeGenerator, one call of generate                    *)
(***************************************************************************)
VARIABLES
    pc,                 \* "constructed", "workers" (parallel driver), "merged"
                        \* (at the end of the progress thread's scope), "returned",
                        \* "exited" (main), "pure" (a function on its own),
                        \* "async" (buildCacheParallel's workers of a level)
    n, m, useMultithreading,    \* the arguments of the call
    availableMemory,    \* what getAvailableMemory() reports to the call
    path,               \* the branch of generate the call took
    count_, cache_,     \* TreeGenerator's members
    delivered,          \* the trees handed to the callback, in order
    ret,                \* the value generate returned
    maxThreads, allPartitions, partitionIndex, partitionsCompleted,
    threadResults, threadCaches,        \* locals of the parallel driver
    worker,             \* per worker thread: running or done, and the last
                        \* startIdx and endIdx it claimed
    stop,               \* per worker thread: stop requested on its jthread
    joined,             \* number of jthreads threads.clear() has destroyed
    progressThread,     \* the progress reporting thread: "none", "running",
                        \* "stop_requested", "exited", "joined"
    arg, out            \* the argument and the results of a function that is
                        \* applied on its own (used when pc = "pure")

callVars == <<n, m, useMultithreading, availableMemory>>
driverVars == <<maxThreads, allPartitions, partitionIndex, partitionsCompleted,
                threadResults, threadCaches, worker, stop, joined,
                progressThread>>
pureVars == <<arg, out>>
vars == <<pc, callVars, path, count_, cache_, delivered, ret, driverVars,
          pureVars>>

\* Bounds of the inputs
SmallN == 6             \* requests below the parallel threshold: n, m <= SmallN
ParallelN == 10         \* the request size that reaches the parallel driver
ParallelM == 2          \*   with m in 1..ParallelM
OptimizedN == 15        \* the request size that reaches the specializer
SequentialM == 2        \*   and, with parallelism disabled, m in 1..SequentialM
RefusedN == 31          \* a request above the supported maximum
MaxCores == 2           \* hardware_concurrency() in 1..MaxCores for m = 1
TotalMemory == Bytes(8, 0)      \* getTotalMemory()
Undetermined == Bytes(0, 0)     \* getAvailableMemory() could not tell
Available == Bytes(8, 0)        \* getAvailableMemory()

Request(ns, ms, flags, mems, cores) ==
    [n : ns, m : ms, useMultithreading : flags, availableMemory : mems,
     hardwareConcurrency : cores]
Requests ==
    Request(0..SmallN, 0..SmallN, BOOLEAN, {Available}, {1})
    \cup Request({ParallelN}, {1}, BOOLEAN, {Available}, 1..MaxCores)
    \cup Request({ParallelN}, 2..ParallelM, BOOLEAN, {Available}, {1})
    \cup Request({ParallelN}, {ParallelN}, BOOLEAN, {Available}, {1})
    \cup Request({OptimizedN}, 0..4, {TRUE}, {Available}, {1})
    \cup Request({OptimizedN}, 1..SequentialM, {FALSE}, {Available}, {1})
    \cup Request({RefusedN}, 0..1, {TRUE}, {Undetermined, Available}, {1})

NoWorkers == << >>

\* a TreeGenerator after construction, before any call
Constructed ==
    /\ n = 0 /\ m = 0 /\ useMultithreading = FALSE
    /\ availableMemory = Undetermined
    /\ path = "none"
    /\ count_ = 0 /\ cache_ = << >>
    /\ delivered = << >> /\ ret = 0
    /\ maxThreads = 0 /\ allPartitions = << >>
    /\ partitionIndex = 0 /\ partitionsCompleted = 0
    /\ threadResults = NoWorkers /\ threadCaches = NoWorkers
    /\ worker = NoWorkers /\ stop = NoWorkers /\ joined = 0
    /\ progressThread = "none"
Init ==
    /\ pc = "constructed" /\ Constructed
    /\ arg = << >> /\ out = << >>

\* the loop with the increment of count_ left out
EmittedUncounted(count, trees) == [delivered |-> trees, count_ |-> count]
\* for (tree : trees) { callback(tree); ++count_; }: the callback's
\* arguments in order and the counter
Emitted(count, trees) ==
    [delivered |-> trees, count_ |-> count + Len(trees)]
\* the counter of the earlier call left as it is
ResetCountKept(count) == count
\* count_ = 0, the first statement of generate
ResetCount(count) == 0

\* generate returns: the callback has been invoked on trees, in order, count_
\* counts the invocations, the driver's locals are gone
Return(taken, cache, trees) ==
    /\ pc' = "returned" /\ path' = taken
    /\ cache_' = cache
    /\ LET counted == IF pc = "workers" THEN count_ ELSE ResetCount(count_)
           emitted == Emitted(counted, trees)
       IN  /\ delivered' = emitted.delivered
           /\ count_' = emitted.count_ /\ ret' = emitted.count_
    /\ maxThreads' = 0 /\ allPartitions' = << >>
    /\ partitionIndex' = 0 /\ partitionsCompleted' = 0
    /\ threadResults' = NoWorkers /\ threadCaches' = NoWorkers
    /\ worker' = NoWorkers /\ stop' = NoWorkers /\ joined' = 0
    /\ progressThread' = IF pc = "workers" THEN "joined" ELSE "none"
    /\ UNCHANGED pureVars

\* generate up to the launch of the worker threads (the parallel driver)
Launch(rq, hardwareConcurrency) ==
    LET threads == 1..MaxThreads(hardwareConcurrency, TotalMemory)
        prewarmSize == Min(rq.n \div 2, 15)
        warm == prewarmCache(prewarmSize, rq.m, EmptyCache(rq.n, rq.m))
    IN  /\ pc' = "workers" /\ path' = "parallel"
        /\ cache_' = warm /\ delivered' = << >>
        /\ count_' = ResetCount(count_) /\ ret' = 0
        /\ maxThreads' = MaxThreads(hardwareConcurrency, TotalMemory)
        /\ allPartitions' = AllPartitions(rq.n, rq.m)
        /\ partitionIndex' = 0 /\ partitionsCompleted' = 0
        /\ threadResults' = [t \in threads |-> << >>]
        /\ threadCaches' = [t \in threads |-> warm]
        /\ worker' = [t \in threads |->
                         [pc |-> "running", startIdx |-> 0, endIdx |-> 0]]
        /\ stop' = [t \in threads |-> FALSE]
        /\ joined' = 0 /\ progressThread' = "running"
        /\ UNCHANGED pureVars

\* TreeGenerator::generate(n, m, callback, useMultithreading): the whole call
\* on the paths that run on the calling thread, and up to the launch of the
\* worker threads on the parallel path
Call(requests) ==
    /\ pc = "constructed"
    /\ \E rq \in requests :
        /\ n' = rq.n /\ m' = rq.m
        /\ useMultithreading' = rq.useMultithreading
        /\ availableMemory' = rq.availableMemory
        /\ IF ~checkMemoryAvailability(rq.n, rq.m, rq.availableMemory)
           THEN Return("refused", cache_, << >>)
           ELSE IF rq.n = 0
           THEN Return("empty", EmptyCache(rq.n, rq.m), << >>)
           ELSE IF ~rq.useMultithreading \/ rq.n < 10
           THEN LET r == generateTreesRecursive(rq.n, rq.m,
                             Caches(EmptyCache(rq.n, rq.m), << >>), TRUE)
                IN  Return("sequential", r.c.local, r.results)
           ELSE IF shouldUseOptimized(rq.n, rq.m)
           THEN Return("optimized", EmptyCache(rq.n, rq.m),
                       generateAllWithCallback(rq.n, rq.m))
           ELSE Launch(rq, rq.hardwareConcurrency)
Generate == Call(Requests)

\* a plain read of the index that leaves it as it is
FetchAddStale(index, batchSize) == index
\* partitionIndex after partitionIndex.fetch_add(batchSize); the value the
\* call returns is the index before
FetchAdd(index, batchSize) == index + batchSize

\* One turn of a worker's loop: while (!stoken.stop_requested()), then
\* startIdx = partitionIndex.fetch_add(batchSize), the test for the end, and
\* the batch.  On the batch the worker reads and writes only its own
\* threadCache and threadResults and (in the base case of the recursion)
\* cache_, and it adds to the atomic partitionsCompleted, which only the
\* progress display reads; so the turn is one step.
WorkerTurn(t) ==
    /\ pc = "workers" /\ worker[t].pc = "running"
    /\ LET batchSize == Max(1, Len(allPartitions) \div (maxThreads * 4))
           startIdx == partitionIndex
           endIdx == Min(startIdx + batchSize, Len(allPartitions))
           r == WorkerBatch(allPartitions, m,
                    [c |-> Caches(threadCaches[t], cache_),
                     results |-> threadResults[t]],
                    startIdx + 1, endIdx)
       IN  IF stop[t]
           THEN /\ worker' = [worker EXCEPT ![t].pc = "done"]
                /\ UNCHANGED <<partitionIndex, partitionsCompleted,
                               threadCaches, threadResults, cache_>>
           ELSE /\ partitionIndex' = FetchAdd(partitionIndex, batchSize)
                /\ IF startIdx >= Len(allPartitions)
                   THEN /\ worker' = [worker EXCEPT ![t].pc = "done"]
                        /\ UNCHANGED <<partitionsCompleted, threadCaches,
                                       threadResults, cache_>>
                   ELSE /\ worker' = [worker EXCEPT ![t] =
                               [pc |-> "running", startIdx |-> startIdx,
                                endIdx |-> endIdx]]
                        /\ threadCaches' =
                               [threadCaches EXCEPT ![t] = r.c.local]
                        /\ threadResults' =
                               [threadResults EXCEPT ![t] = r.results]
                        /\ cache_' = r.c.shared
                        /\ partitionsCompleted' =
                               partitionsCompleted + (endIdx - startIdx)
    /\ UNCHANGED <<pc, callVars, path, count_, delivered, ret, maxThreads,
                   allPartitions, stop, joined, progressThread, pureVars>>

\* threads.clear(): the jthreads are destroyed in order, and the destructor
\* of a jthread calls request_stop() and then join()
RequestStop ==
    /\ pc = "workers" /\ joined < maxThreads /\ ~stop[joined + 1]
    /\ stop' = [stop EXCEPT ![joined + 1] = TRUE]
    /\ UNCHANGED <<pc, callVars, path, count_, cache_, delivered, ret,
                   maxThreads, allPartitions, partitionIndex,
                   partitionsCompleted, threadResults, threadCaches, worker,
                   joined, progressThread, pureVars>>
Join ==
    /\ pc = "workers" /\ joined < maxThreads
    /\ stop[joined + 1] /\ worker[joined + 1].pc = "done"
    /\ joined' = joined + 1
    /\ UNCHANGED <<pc, callVars, path, count_, cache_, delivered, ret,
                   maxThreads, allPartitions, partitionIndex,
                   partitionsCompleted, threadResults, threadCaches, worker,
                   stop, progressThread, pureVars>>

\* the merge started while workers are still running
MergeUnjoined ==
    /\ pc = "workers"
    /\ Return("parallel", cache_, GlobalDedup(threadResults))
    /\ UNCHANGED callVars

\* the merge with global deduplication, the callbacks, and the return
Merge ==
    /\ pc = "workers" /\ joined = maxThreads
    /\ Return("parallel", cache_, GlobalDedup(threadResults))
    /\ UNCHANGED callVars

Next ==
    \/ Generate
    \/ \E t \in DOMAIN worker : WorkerTurn(t)
    \/ RequestStop
    \/ Join
    \/ Merge

Spec == Init /\ [][Next]_vars

(***************************************************************************)
(* Several calls of generate on one TreeGenerator, one after the other.    *)
(* out keeps what the caller saw of the earlier calls.                      *)
(***************************************************************************)
MaxCalls == 2
RepeatN == 3
RepeatRequests ==
    Request(0..RepeatN, 0..RepeatN, BOOLEAN, {Available}, {1})
    \cup Request({ParallelN}, 1..2, {TRUE}, {Available}, {1})
    \cup Request({OptimizedN}, 1..2, {TRUE}, {Available}, {1})
    \cup Request({RefusedN}, {1}, {TRUE}, {Undetermined, Available}, {1})
Seen ==
    [n |-> n, m |-> m, useMultithreading |-> useMultithreading,
     path |-> path, ret |-> ret, delivered |-> delivered]
GenerateAgain == Call(RepeatRequests)
CallAgain ==
    /\ pc = "returned" /\ Len(out) < MaxCalls - 1
    /\ pc' = "constructed"
    /\ out' = Append(out, Seen)
    /\ UNCHANGED <<callVars, path, count_, cache_, delivered, ret,
                   driverVars, arg>>
NextRepeated ==
    \/ GenerateAgain
    \/ \E t \in DOMAIN worker : WorkerTurn(t)
    \/ RequestStop
    \/ Join
    \/ Merge
    \/ CallAgain
SpecRepeated == Init /\ [][NextRepeated]_vars

(***************************************************************************)
(* The parallel driver with the progress reporting thread and the end of   *)
(* its scope taken step by step, under fair scheduling of the threads.     *)
(* The reporter's loop sleeps, reads count_ and partitionsCompleted and    *)
(* prints; an iteration changes nothing of the state, so only its exit is  *)
(* a step.  At the end of the scope ~jthread requests the reporter's stop  *)
(* and joins it, and generate returns after that.                          *)
(***************************************************************************)
LiveRequests ==
    Request({ParallelN}, {1}, {TRUE}, {Available}, 1..MaxCores)
GenerateParallel == Call(LiveRequests)
\* the merge and the callbacks (lines 335-345), up to the end of the scope,
\* where the destructor of progressThread requests its stop
MergeCallbacks ==
    /\ pc = "workers" /\ joined = maxThreads
    /\ LET emitted == Emitted(count_, GlobalDedup(threadResults))
       IN  delivered' = emitted.delivered /\ count_' = emitted.count_
    /\ pc' = "merged" /\ progressThread' = "stop_requested"
    /\ UNCHANGED <<callVars, path, cache_, ret, maxThreads, allPartitions,
                   partitionIndex, partitionsCompleted, threadResults,
                   threadCaches, worker, stop, joined, pureVars>>
\* a reporter whose loop does not look at the stop token
ProgressSleepsOn ==
    /\ pc = "merged" /\ progressThread = "stop_requested"
    /\ UNCHANGED vars
\* while (!stoken.stop_requested()) fails after the sleep: the reporter ends
ProgressExit ==
    /\ pc = "merged" /\ progressThread = "stop_requested"
    /\ progressThread' = "exited"
    /\ UNCHANGED <<pc, callVars, path, count_, cache_, delivered, ret,
                   maxThreads, allPartitions, partitionIndex,
                   partitionsCompleted, threadResults, threadCaches, worker,
                   stop, joined, pureVars>>
\* the join of the reporter returns, the progress line is cleared, and
\* generate returns count_
ReturnParallel ==
    /\ pc = "merged" /\ progressThread = "exited"
    /\ pc' = "returned" /\ ret' = count_ /\ progressThread' = "joined"
    /\ maxThreads' = 0 /\ allPartitions' = << >>
    /\ partitionIndex' = 0 /\ partitionsCompleted' = 0
    /\ threadResults' = NoWorkers /\ threadCaches' = NoWorkers
    /\ worker' = NoWorkers /\ stop' = NoWorkers /\ joined' = 0
    /\ UNCHANGED <<callVars, path, count_, cache_, delivered, pureVars>>
NextLive ==
    \/ GenerateParallel
    \/ \E t \in DOMAIN worker : WorkerTurn(t)
    \/ RequestStop
    \/ Join
    \/ MergeCallbacks
    \/ ProgressExit
    \/ ReturnParallel
\* worker t can take a turn; a turn always changes worker or partitionIndex
Running(t) == pc = "workers" /\ t \in DOMAIN worker /\ worker[t].pc = "running"
\* Every thread that can take a step is scheduled in the end.  For a worker
\* this is WF_vars(WorkerTurn(t)) written out, with Running(t) for
\* ENABLED <<WorkerTurn(t)>>_vars.
Fairness ==
    /\ \A t \in 1..MaxCores :
          \/ []<>(~Running(t))
          \/ []<><<t \in DOMAIN worker /\ WorkerTurn(t)>>_vars
    /\ WF_vars(RequestStop) /\ WF_vars(Join)
    /\ WF_vars(MergeCallbacks) /\ WF_vars(ProgressExit)
    /\ WF_vars(ReturnParallel)
SpecLive == Init /\ [][NextLive]_vars /\ Fairness

(***************************************************************************)
(* The nested fan-out of generateTreesRecursive, entered at the top of the *)
(* call generate(FanoutN, FanoutM, callback, false): the smallest call     *)
(* that takes it (remainingNodes > 12, maxLeaves > 4).  localCache is      *)
(* cache_.  One jthread per numChildren = 1..remainingNodes; the lambda    *)
(* holds its own copy of localCache, made when the thread is created.      *)
(*                                                                         *)
(* The lists of trees of this size are not evaluated.  A tree pushed by    *)
(* generateCombinations for a partition has that partition as the sizes of *)
(* its root's children, so the trees of different partitions differ, and   *)
(* a thread's result is kept as the partitions it pushed trees for: those  *)
(* with at most maxLeaves parts (there is a tree for each, chains under    *)
(* the root).  A thread's run is one step.  The first FanoutFree threads   *)
(* and the last one are scheduled at any time; the others are not          *)
(* scheduled before threads.clear() has requested their stop.              *)
(***************************************************************************)
FanoutN == FanoutRemaining + 2
FanoutM == FanoutLeaves + 1
FanoutFree == 2
\* generatePartitions(remainingNodes, numChildren), each sorted descending
ThreadPartitions(remainingNodes, numChildren) ==
    LET partitions == generatePartitions(remainingNodes, numChildren,
                                         << >>, << >>)
    IN  AsSeq([k \in 1..Len(partitions) |-> SortDesc(partitions[k])])
\* the partitions for which generateCombinations pushes a tree
Pushing(partitions, maxLeaves) ==
    SelectSeq(partitions, LAMBDA partition : Len(partition) <= maxLeaves)
\* thread k may be scheduled
InTurn(k) == k <= FanoutFree \/ k = maxThreads \/ stop[k]
\* the thread's lookups of (1, maxLeaves) miss in its copy, so that it runs
\* the base case and assigns cache_[1][maxLeaves]
AssignsMember(k) ==
    /\ worker[k].pc = "running" /\ ~stop[k]
    /\ Len(allPartitions[k]) > 0
    /\ Len(threadCaches[k][1][m]) = 0

\* generate(FanoutN, FanoutM, callback, false) up to the loop that creates
\* the threads
FanoutEnter ==
    /\ pc = "constructed"
    /\ pc' = "spawning" /\ path' = "sequential"
    /\ n' = FanoutN /\ m' = FanoutM /\ useMultithreading' = FALSE
    /\ availableMemory' = Available
    /\ count_' = ResetCount(count_) /\ cache_' = EmptyCache(FanoutN, FanoutM)
    /\ maxThreads' = FanoutN - 1
    /\ allPartitions' = [k \in 1..(FanoutN - 1) |->
                            ThreadPartitions(FanoutN - 1, k)]
    /\ threadResults' = [k \in 1..(FanoutN - 1) |-> << >>]
    /\ threadCaches' = << >> /\ worker' = << >> /\ stop' = << >>
    /\ joined' = 0
    /\ UNCHANGED <<delivered, ret, partitionIndex, partitionsCompleted,
                   progressThread, pureVars>>
\* threads.emplace_back(lambda): the lambda copies localCache, the thread
\* starts
Spawn ==
    /\ pc = "spawning"
    /\ threadCaches' = Append(threadCaches, cache_)
    /\ worker' = Append(worker, [pc |-> "running", startIdx |-> 0,
                                 endIdx |-> 0])
    /\ stop' = Append(stop, FALSE)
    /\ pc' = IF Len(worker) + 1 = maxThreads THEN "workers" ELSE pc
    /\ UNCHANGED <<callVars, path, count_, cache_, delivered, ret,
                   maxThreads, allPartitions, partitionIndex,
                   partitionsCompleted, threadResults, joined, progressThread,
                   pureVars>>
\* the body of the lambda for thread numChildren = k
ThreadRun(k) ==
    /\ pc \in {"spawning", "workers"} /\ worker[k].pc = "running"
    /\ InTurn(k)
    /\ IF stop[k]
       THEN /\ worker' = [worker EXCEPT ![k].pc = "done"]
            /\ UNCHANGED <<threadResults, cache_>>
       ELSE /\ worker' = [worker EXCEPT
                             ![k] = [pc |-> "done", startIdx |-> 0,
                                     endIdx |-> Len(allPartitions[k])]]
            /\ threadResults' =
                   [threadResults EXCEPT ![k] = Pushing(allPartitions[k], m)]
            /\ cache_' = IF AssignsMember(k)
                         THEN [cache_ EXCEPT ![1][m] = SingleNode(m)]
                         ELSE cache_
    /\ UNCHANGED <<pc, callVars, path, count_, delivered, ret, maxThreads,
                   allPartitions, partitionIndex, partitionsCompleted,
                   threadCaches, stop, joined, progressThread, pureVars>>
\* after threads.clear(): results.insert(...) for every thread's results
Collect ==
    /\ pc = "workers" /\ joined = maxThreads
    /\ pc' = "collected"
    /\ out' = [results |-> Flatten(threadResults)]
    /\ UNCHANGED <<callVars, path, count_, cache_, delivered, ret,
                   driverVars, arg>>
NextFanout ==
    \/ FanoutEnter
    \/ Spawn
    \/ \E k \in DOMAIN worker : ThreadRun(k)
    \/ RequestStop
    \/ Join
    \/ Collect
SpecFanout == Init /\ [][NextFanout]_vars

(***************************************************************************)
(* main: one call of generate with the flag enabled, then the exit code.   *)
(* out keeps the value main returns.                                        *)
(***************************************************************************)
MainN == 5
MainRequests ==
    Request(0..MainN, 0..MainN, {TRUE}, {Available}, {1})
    \cup Request({ParallelN}, {1}, {TRUE}, {Available}, {1})
    \cup Request({OptimizedN}, {1}, {TRUE}, {Available}, {1})
    \cup Request({30}, {1}, {TRUE}, {Bytes(0, MiB(300))}, {1})
    \cup Request({RefusedN}, {1}, {TRUE}, {Undetermined, Available}, {1})
\* argc < 3: the usage text, return 1
MainUsage ==
    /\ pc = "constructed"
    /\ pc' = "exited" /\ out' = [exit |-> 1]
    /\ UNCHANGED <<callVars, path, count_, cache_, delivered, ret,
                   driverVars, arg>>
\* size_t total = generator.generate(n, m, callback, true)
MainCall == Call(MainRequests)
\* the summary, return 0
MainReturn ==
    /\ pc = "returned"
    /\ pc' = "exited" /\ out' = [exit |-> 0]
    /\ UNCHANGED <<callVars, path, count_, cache_, delivered, ret,
                   driverVars, arg>>
NextMain ==
    \/ MainUsage
    \/ MainCall
    \/ \E t \in DOMAIN worker : WorkerTurn(t)
    \/ RequestStop
    \/ Join
    \/ Merge
    \/ MainReturn
SpecMain == Init /\ [][NextMain]_vars

(***************************************************************************)
(* Functions applied on their own: an argument is drawn at the start and   *)
(* each action applies one function to it, recording the result in out.    *)
(***************************************************************************)
Applied(f) == f \in DOMAIN out
Record(f, v) == out' = out @@ (f :> v)
PureStep ==
    /\ pc = "pure"
    /\ UNCHANGED <<pc, callVars, path, count_, cache_, delivered, ret,
                   driverVars, arg>>
InitPure(args) ==
    /\ pc = "pure" /\ Constructed
    /\ arg \in args /\ out = << >>

\* what the sequential path of generate hands to the callback for (n, m)
GeneralTrees(nodes, maxLeaves) ==
    IF nodes = 0 THEN << >>
    ELSE generateTreesRecursive(nodes, maxLeaves,
             Caches(EmptyCache(nodes, maxLeaves), << >>),
             TRUE).results

\* Tree on its own: two trees with their children in any order, built with
\* Tree() and addChild
TreeArgN == 5
InsertAt(t, i, child) ==
    SubSeq(t, 1, i - 1) \o <<child>> \o SubSeq(t, i, Len(t))
RECURSIVE WithOneMoreLeaf(_)
WithOneMoreLeaf(t) ==
    {InsertAt(t, i, Leaf) : i \in 1..(Len(t) + 1)}
    \cup UNION {{[t EXCEPT ![i] = c] : c \in WithOneMoreLeaf(t[i])} :
                   i \in 1..Len(t)}
RECURSIVE BuiltTrees(_)
BuiltTrees(k) ==
    IF k = 1 THEN {Leaf}
    ELSE UNION {WithOneMoreLeaf(t) : t \in BuiltTrees(k - 1)}
TreeArgs ==
    LET trees == UNION {BuiltTrees(k) : k \in 1..TreeArgN}
    IN  [a : trees, b : trees]
\* the vectors with the elements of children in every order
Reordered(children) ==
    {[i \in 1..Len(children) |-> children[p[i]]] :
        p \in Permutations(1..Len(children))}
ApplySortToCanonical ==
    /\ PureStep /\ ~Applied("sorted")
    /\ Record("sorted", [a |-> sortToCanonical(arg.a),
                         b |-> sortToCanonical(arg.b)])
ApplySortAgain ==
    /\ PureStep /\ Applied("sorted") /\ ~Applied("again")
    /\ Record("again", sortToCanonical(out.sorted.a))
ApplyTreeOf ==
    /\ PureStep /\ ~Applied("constructed")
    /\ Record("constructed",
              {toString(TreeOf(children)) : children \in Reordered(arg.a)})
InitTree == InitPure(TreeArgs)
NextTree == ApplySortToCanonical \/ ApplySortAgain \/ ApplyTreeOf
SpecTree == InitTree /\ [][NextTree]_vars

\* The body of the worker's loop on its own: one partition of the work list
\* of generate(ParallelN, m), on the caches the driver hands to a worker
WorkerArgM == 2
WorkerArgPart == 5
Prewarmed(nodes, maxLeaves) ==
    prewarmCache(Min(nodes \div 2, 15), maxLeaves,
                 EmptyCache(nodes, maxLeaves))
WorkerArgs ==
    UNION {LET all == AllPartitions(ParallelN, maxLeaves)
           IN  {[m |-> maxLeaves, partition |-> all[i][2]] :
                  i \in {j \in 1..Len(all) : all[j][2][1] <= WorkerArgPart}} :
           maxLeaves \in 0..WorkerArgM}
ApplyWorkerPartition ==
    /\ PureStep /\ ~Applied("worker")
    /\ Record("worker",
              LET warm == Prewarmed(ParallelN, arg.m)
              IN  WorkerPartition(arg.partition, arg.m,
                      [c |-> Caches(warm, warm), results |-> << >>]))
InitWorker == InitPure(WorkerArgs)
SpecWorker == InitWorker /\ [][ApplyWorkerPartition]_vars

\* generateTreesRecursive asked for keys of one cache, as the sequential path
\* does (localCache is cache_): for arg.first on the empty cache, then for
\* arg.later, then for arg.later once more
CacheArgN == 5
CacheArgM == 2
CacheArgs ==
    [first : (1..CacheArgN) \X (0..CacheArgM),
     later : (1..CacheArgN) \X (0..CacheArgM)]
\* one request on the cache c (a new call: nothing assigned yet)
RequestKey(key, cache) ==
    generateTreesRecursive(key[1], key[2], Caches(cache, << >>), TRUE)
ApplyFirstRequest ==
    /\ PureStep /\ ~Applied("first")
    /\ Record("first",
              RequestKey(arg.first, EmptyCache(CacheArgN, CacheArgM)))
ApplyLaterRequest ==
    /\ PureStep /\ Applied("first") /\ ~Applied("later")
    /\ Record("later", RequestKey(arg.later, out.first.c.local))
ApplyRequestAgain ==
    /\ PureStep /\ Applied("later") /\ ~Applied("again")
    /\ Record("again", RequestKey(arg.later, out.later.c.local))
InitCache == InitPure(CacheArgs)
NextCache == ApplyFirstRequest \/ ApplyLaterRequest \/ ApplyRequestAgain
SpecCache == InitCache /\ [][NextCache]_vars

\* the cap on the root's children and the work list of the parallel driver,
\* for the requests generate routes to it (n >= 10, not to the specializer;
\* n > 30 gets there when the available memory cannot be determined)
CapArgN == 32
CapArgM == 7
CapArgs ==
    {rq \in [n : ParallelN..CapArgN, m : 0..CapArgM] :
        ~shouldUseOptimized(rq.n, rq.m)}
ApplyMaxChildren ==
    /\ PureStep /\ ~Applied("maxChildren")
    /\ Record("maxChildren", maxChildren(arg.n - 1, arg.m))
ApplyAllPartitions ==
    /\ PureStep /\ ~Applied("allPartitions") /\ arg.n = ParallelN
    /\ Record("allPartitions", AllPartitions(arg.n, arg.m))
InitCap == InitPure(CapArgs)
NextCap == ApplyMaxChildren \/ ApplyAllPartitions
SpecCap == InitCap /\ [][NextCap]_vars

\* generatePartitions on its own, called as the generator calls it (current
\* and result empty)
PartArgN == 8
PartArgK == 9
PartitionArgs == [n : 0..PartArgN, k : 0..PartArgK]
ApplyGeneratePartitions ==
    /\ PureStep /\ ~Applied("partitions")
    /\ Record("partitions", generatePartitions(arg.n, arg.k, << >>, << >>))
SpecPartitions == InitPure(PartitionArgs) /\ [][ApplyGeneratePartitions]_vars

\* generateCombinations on its own, called as generateTreesRecursive calls
\* it: for a partition of 1..CombArgN nodes, with the trees of partition[i]
\* nodes and at most childLeaves leaves as the options of child i; maxLeaves
\* may be smaller than what the options hold
CombArgN == 5
CombArgLeaves == 3
CombinationArgs ==
    UNION {LET partitions == generatePartitions(nodes, nodes, << >>, << >>)
           IN  {[partition |-> partitions[i], maxLeaves |-> maxLeaves,
                 childTrees |-> [j \in 1..Len(partitions[i]) |->
                                   GeneralTrees(partitions[i][j], childLeaves)]] :
                  i \in 1..Len(partitions), maxLeaves \in 0..(CombArgLeaves + 1),
                  childLeaves \in 1..CombArgLeaves} :
           nodes \in 1..CombArgN}
ApplyGenerateCombinations ==
    /\ PureStep /\ ~Applied("combinations")
    /\ Record("combinations",
              generateCombinations(arg.partition, arg.maxLeaves,
                                   arg.childTrees, 0, << >>, << >>))
SpecCombinations == InitPure(CombinationArgs) /\ [][ApplyGenerateCombinations]_vars

\* generateTwoLeaves on its own, into an empty vector
TwoArgN == 50
TwoLeavesArgs == [n : 0..TwoArgN]
ApplyGenerateTwoLeaves ==
    /\ PureStep /\ ~Applied("twoLeaves")
    /\ Record("twoLeaves", generateTwoLeaves(arg.n, << >>))
SpecTwoLeaves == InitPure(TwoLeavesArgs) /\ [][ApplyGenerateTwoLeaves]_vars

\* generateIntegerPartitions on its own, with current and result empty
IntPartN == 6
IntPartK == 5
IntPartMin == 2
IntegerPartitionArgs ==
    [n : 0..IntPartN, k : 0..IntPartK, minPart : 1..IntPartMin]
ApplyGenerateIntegerPartitions ==
    /\ PureStep /\ ~Applied("integerPartitions")
    /\ Record("integerPartitions",
              generateIntegerPartitions(arg.n, arg.k, arg.minPart, << >>,
                  [result |-> << >>, terminates |-> TRUE]))
SpecIntegerPartitions == InitPure(IntegerPartitionArgs) /\ [][ApplyGenerateIntegerPartitions]_vars

\* generateWithExactLeaves on its own
ExactArgN == 8
ExactArgK == 6
ExactLeavesArgs == [n : 0..ExactArgN, k : 0..ExactArgK]
ApplyGenerateWithExactLeaves ==
    /\ PureStep /\ ~Applied("exactLeaves")
    /\ Record("exactLeaves", generateWithExactLeaves(arg.n, arg.k))
SpecExactLeaves ==
    InitPure(ExactLeavesArgs) /\ [][ApplyGenerateWithExactLeaves]_vars

(***************************************************************************)
(* buildCacheParallel with levels above 4: the std::async workers of a     *)
(* level and the loop that collects their futures.  cache_ is the cache    *)
(* argument, partitionIndex is workIndex, joined counts the futures        *)
(* collected, arg.numCores is what hardware_concurrency() reports.  A      *)
(* worker's record holds what its lambda captured by value (leafCount,     *)
(* batchSize) and its locals startN/nodeCount and endN; threadResults[t]   *)
(* is the worker's local vector of (nodeCount, trees) pairs.               *)
(***************************************************************************)
BuildArgN == 7
BuildArgK == 5
BuildCores == 2
BuildCacheArgs ==
    [maxN : 5..BuildArgN, maxK : 4..BuildArgK, numCores : 1..BuildCores]

\* the else branch up to the end of the loop that pushes the futures
AsyncLevel(leafCount, maxN, numCores) ==
    LET totalWork == maxN - leafCount + 1
        batchSize == Max(2, totalWork \div numCores)
    IN  /\ partitionIndex' = leafCount
        /\ worker' = [t \in 1..numCores |->
                         [pc |-> "fetch", leafCount |-> leafCount,
                          batchSize |-> batchSize, nodeCount |-> 0,
                          endN |-> 0]]
        /\ threadResults' = [t \in 1..numCores |-> << >>]
        /\ joined' = 0

\* the call, the levels 1..4 built in place, and the launch of level 5
BuildCacheEnter ==
    /\ pc = "pure"
    /\ cache_' = buildCacheParallel(arg.maxN, Min(arg.maxK, 4),
                                    EmptyCache(arg.maxN, arg.maxK))
    /\ IF arg.maxK >= 5
       THEN pc' = "async" /\ AsyncLevel(5, arg.maxN, arg.numCores)
       ELSE /\ pc' = "returned"
            /\ UNCHANGED <<partitionIndex, worker, threadResults, joined>>
    /\ UNCHANGED <<callVars, path, count_, delivered, ret, maxThreads,
                   allPartitions, partitionsCompleted, threadCaches, stop,
                   progressThread, pureVars>>

\* while (true) { startN = workIndex.fetch_add(batchSize);
\* if (startN > maxN) break; endN = min(startN + batchSize - 1, maxN);
AsyncFetch(t) ==
    /\ pc = "async" /\ worker[t].pc = "fetch"
    /\ LET startN == partitionIndex
           w == worker[t]
       IN  /\ partitionIndex' = FetchAdd(partitionIndex, w.batchSize)
           /\ worker' = [worker EXCEPT ![t] =
                  IF startN > arg.maxN THEN [w EXCEPT !.pc = "done"]
                  ELSE [w EXCEPT !.pc = "generate", !.nodeCount = startN,
                                 !.endN = Min(startN + w.batchSize - 1,
                                              arg.maxN)]]
    /\ UNCHANGED <<pc, callVars, path, count_, cache_, delivered, ret,
                   maxThreads, allPartitions, partitionsCompleted,
                   threadResults, threadCaches, stop, joined, progressThread,
                   pureVars>>

\* one pass of for (nodeCount = startN; nodeCount <= endN; ++nodeCount):
\* generateWithExactLeavesGeneric reading the shared cache as it is now
AsyncGenerate(t) ==
    /\ pc = "async" /\ worker[t].pc = "generate"
    /\ LET w == worker[t]
           results == generateWithExactLeavesGeneric(w.nodeCount, w.leafCount,
                                                     cache_)
       IN  /\ threadResults' = [threadResults EXCEPT ![t] =
                  Append(@, <<w.nodeCount, results>>)]
           /\ worker' = [worker EXCEPT ![t] =
                  IF w.nodeCount + 1 > w.endN THEN [w EXCEPT !.pc = "fetch"]
                  ELSE [w EXCEPT !.nodeCount = w.nodeCount + 1]]
    /\ UNCHANGED <<pc, callVars, path, count_, cache_, delivered, ret,
                   maxThreads, allPartitions, partitionIndex,
                   partitionsCompleted, threadCaches, stop, joined,
                   progressThread, pureVars>>

\* cache[nodeCount][leafCount] = std::move(trees) for the pairs in order
RECURSIVE MovePairs(_, _, _)
MovePairs(pairs, leafCount, cache) ==
    IF Len(pairs) = 0 THEN cache
    ELSE MovePairs(Tail(pairs), leafCount,
             [cache EXCEPT ![Head(pairs)[1]][leafCount] = Head(pairs)[2]])

\* one pass of for (auto& future : futures): future.get() returns once the
\* worker has returned, then the pairs are moved into the cache; after the
\* last future the next level starts or the function returns
CollectFuture ==
    /\ pc = "async" /\ joined < arg.numCores
    /\ worker[joined + 1].pc = "done"
    /\ LET leafCount == worker[joined + 1].leafCount
       IN  /\ cache_' = MovePairs(threadResults[joined + 1], leafCount, cache_)
           /\ IF joined + 1 < arg.numCores
              THEN /\ joined' = joined + 1
                   /\ UNCHANGED <<pc, partitionIndex, worker, threadResults>>
              ELSE IF leafCount < arg.maxK
              THEN /\ AsyncLevel(leafCount + 1, arg.maxN, arg.numCores)
                   /\ UNCHANGED pc
              ELSE /\ pc' = "returned" /\ joined' = joined + 1
                   /\ UNCHANGED <<partitionIndex, worker, threadResults>>
    /\ UNCHANGED <<callVars, path, count_, delivered, ret, maxThreads,
                   allPartitions, partitionsCompleted, threadCaches, stop,
                   progressThread, pureVars>>

NextBuildCache ==
    \/ BuildCacheEnter
    \/ \E t \in DOMAIN worker : AsyncFetch(t)
    \/ \E t \in DOMAIN worker : AsyncGenerate(t)
    \/ CollectFuture
SpecBuildCache == InitPure(BuildCacheArgs) /\ [][NextBuildCache]_vars

\* checkMemoryAvailability on its own, for amounts of available memory
\* around the estimates
MemoryArgs ==
    [n : 20..RefusedN, m : {3},
     availableMemory : {Undetermined, Bytes(0, MiB(300)), Bytes(0, MiB(600)),
                        Bytes(0, MiB(1024) - 1), Bytes(1, 0),
                        Bytes(1, MiB(1024) - 1), Bytes(2, 0), Bytes(3, 0),
                        Available}]
ApplyMemoryCheck ==
    /\ PureStep /\ ~Applied("memoryCheck")
    /\ Record("memoryCheck", memoryCheck(arg.n, arg.m, arg.availableMemory))
InitMemory == InitPure(MemoryArgs)
SpecMemory == InitMemory /\ [][ApplyMemoryCheck]_vars

\* The specializer beside the general generator
OptimizerArgN == 7
ApplySpecializer ==
    /\ PureStep /\ ~Applied("specialized")
    /\ Record("specialized", generateAllWithCallback(arg.n, arg.m))
ApplyGeneral ==
    /\ PureStep /\ ~Applied("general")
    /\ Record("general", GeneralTrees(arg.n, arg.m))
InitOptimizer == InitPure([n : 1..OptimizerArgN, m : 1..4])
NextOptimizer == ApplySpecializer \/ ApplyGeneral
SpecOptimizer == InitOptimizer /\ [][NextOptimizer]_vars

(***************************************************************************)
(* Vocabulary of the claims                                                *)
(***************************************************************************)
\* the canonical strings of a sequence of trees
Strings(trees) == {toString(trees[i]) : i \in 1..Len(trees)}
\* the call has returned and was not refused for resources
Accepted == pc = "returned" /\ path # "refused"

\* The reference set of unordered rooted trees, built without the generator:
\* every tree with k >= 2 nodes arises from one with k - 1 nodes by hanging a
\* new leaf below one of its nodes, and taking a leaf away never adds a leaf.
RECURSIVE RefLeaves(_)
RefLeaves(t) ==
    IF Len(t) = 0 THEN 1
    ELSE IF Len(t) = 1 THEN RefLeaves(t[1])
    ELSE LET F[i \in 0..Len(t)] ==
                 IF i = 0 THEN 0 ELSE F[i - 1] + RefLeaves(t[i])
         IN  F[Len(t)]
RECURSIVE Grow(_)
Grow(t) ==
    {Append(t, Leaf)}
    \cup UNION {{[t EXCEPT ![i] = g] : g \in Grow(t[i])} : i \in 1..Len(t)}
RECURSIVE RefTrees(_, _)
RefTrees(k, maxLeaves) ==
    IF k = 0 \/ maxLeaves = 0 THEN {}
    ELSE IF k = 1 THEN {Leaf}
    ELSE LET smaller == RefTrees(k - 1, maxLeaves)
             grown == UNION {Grow(t) : t \in smaller}
         IN  {sortToCanonical(g) : g \in {h \in grown : RefLeaves(h) <= maxLeaves}}
RefStrings(k, maxLeaves) == {toString(t) : t \in RefTrees(k, maxLeaves)}

C2_NodesAndLeaves ==
    \A i \in 1..Len(delivered) :
        getNodeCount(delivered[i]) = n /\ getLeafCount(delivered[i]) <= m
C2_Witness ==
    /\ Accepted /\ path = "parallel" /\ m = 2 /\ Len(delivered) > 2

\* C3: within one call no two delivered trees have the same canonical
\* string, on every path and under every interleaving of the workers.
C3_NoDuplicates == Cardinality(Strings(delivered)) = Len(delivered)
C3_Witness ==
    /\ Accepted /\ path = "optimized" /\ m = 4 /\ Len(delivered) > 2

\* C4: the number of trees generate emits with parallelism enabled equals
\* the number it emits with parallelism disabled, for every request that the
\* model makes both ways, whichever path the enabled call takes and under
\* every interleaving.
DisabledToo ==
    [n |-> n, m |-> m, useMultithreading |-> FALSE,
     availableMemory |-> availableMemory, hardwareConcurrency |-> 1]
        \in Requests
C4_SameCountEnabledDisabled ==
    (Accepted /\ useMultithreading /\ DisabledToo)
        => ret = Len(GeneralTrees(n, m))

\* C5: for M in 1..4 the specializer generateAllWithCallback(N, M) produces
\* the same set of canonical strings as the general generator for (N, M).
C5_SpecializerEqualsGeneral ==
    (Applied("specialized") /\ Applied("general"))
        => Strings(out.specialized) = Strings(out.general)

\* C6: for M >= N and N in 1..10 the number of trees generate emits is
\* A000081(N): 1, 1, 2, 4, 9, 20, 48, 115, 286, 719.
A000081 == <<1, 1, 2, 4, 9, 20, 48, 115, 286, 719>>
C6_CountIsA000081 ==
    (Accepted /\ n \in 1..Len(A000081) /\ m >= n) => ret = A000081[n]

\* C7 (as stated): generate(4, 3) emits exactly four trees, with the strings
\* (((()))), (((),())), ((),(())) and ((),(),()).
C7_FourTreesAsStated ==
    (Accepted /\ n = 4 /\ m = 3)
        => /\ Len(delivered) = 4
           /\ Strings(delivered) =
                LET o == LPAREN  c == RPAREN  k == COMMA
                IN  { <<o, o, o, o, c, c, c, c>>,
                      <<o, o, o, c, k, o, c, c, c>>,
                      <<o, o, c, k, o, o, c, c, c>>,
                      <<o, o, c, k, o, c, k, o, c, c>> }

\* C7 (amended): generate(4, 3) emits exactly four trees, with the strings
\* (((()))), (((),())), ((()),()) and ((),(),()): the chain child sorts
\* before the leaf child because '(' compares below ')'.
C7_FourTrees ==
    (Accepted /\ n = 4 /\ m = 3)
        => /\ Len(delivered) = 4
           /\ Strings(delivered) =
                LET o == LPAREN  c == RPAREN  k == COMMA
                IN  { <<o, o, o, o, c, c, c, c>>,
                      <<o, o, o, c, k, o, c, c, c>>,
                      <<o, o, o, c, c, k, o, c, c>>,
                      <<o, o, c, k, o, c, k, o, c, c>> }
C7_Witness ==
    /\ Accepted /\ n = 4 /\ m = 3 /\ path = "sequential"
    /\ Len(delivered) = 4

\* C8: for two accepted calls with the same N, the strings emitted for the
\* smaller leaf bound are a subset of the strings emitted for the larger one,
\* whichever path each call takes.
C8_MonotoneInLeaves ==
    Accepted =>
        \A k \in 1..Len(out) :
            (out[k].path # "refused" /\ out[k].n = n) =>
                /\ out[k].m <= m
                     => Strings(out[k].delivered) \subseteq Strings(delivered)
                /\ out[k].m >= m
                     => Strings(delivered) \subseteq Strings(out[k].delivered)

\* C9: for M = 1 and every N >= 1 an accepted call emits exactly one tree,
\* the chain of N nodes, on every path.
C9_OnlyTheChain ==
    (Accepted /\ m = 1 /\ n >= 1)
        => /\ Len(delivered) = 1
           /\ Strings(delivered) = {toString(ChainOf(n))}

\* C10: a call with N = 0, or with N >= 1 and M = 0, never invokes the
\* callback and returns 0, with the flag enabled or disabled.
C10_EmptyResult ==
    (pc = "returned" /\ (n = 0 \/ m = 0))
        => delivered = << >> /\ ret = 0 /\ count_ = 0
C10_Witness ==
    /\ Accepted /\ n = OptimizedN /\ m = 0 /\ useMultithreading
    /\ path = "optimized" /\ ret = 0

\* C11: every tree handed to the callback is in canonical form: at every
\* node the children are in non-decreasing order of their strings, and every
\* descendant is in canonical form too; on all three paths.
RECURSIVE IsCanonical(_)
IsCanonical(t) ==
    /\ \A i \in 1..(Len(t) - 1) : ~StrLess(toString(t[i + 1]), toString(t[i]))
    /\ \A i \in 1..Len(t) : IsCanonical(t[i])
C11_DeliveredCanonical ==
    \A i \in 1..Len(delivered) : IsCanonical(delivered[i])
C11_Witness ==
    /\ Accepted /\ path = "optimized" /\ m = 3
    /\ \E i \in 1..Len(delivered) :
          /\ Len(delivered[i]) = 3
          /\ toString(delivered[i][1]) # toString(delivered[i][3])

\* C12: the callback is invoked by one thread only: no step of a worker
\* invokes it, and on the parallel driver the calling thread invokes it only
\* once every worker has terminated and has been joined.
C12_CallbackAfterJoin ==
    [][(delivered' # delivered \/ count_' # count_)
         => /\ pc' = "returned"
            /\ pc = "workers"
                 => /\ joined = maxThreads
                    /\ \A t \in DOMAIN worker : worker[t].pc = "done"]_vars
C12_Witness ==
    /\ Accepted /\ path = "parallel" /\ m = 1
    /\ Len(delivered) = 1

\* C13: on every path generate returns the number of callback invocations
\* of that call, which is also what getCount() gives after the call.
C13_ReturnsCount ==
    pc = "returned" => ret = Len(delivered) /\ count_ = ret
C13_Witness ==
    /\ Accepted /\ path = "sequential" /\ n = ParallelN /\ m = ParallelN
    /\ ret = A000081[ParallelN]

\* C14: every request with N > 30 is rejected, whatever the platform reports
\* as available memory (also when it reports none): no tree is emitted and
\* generate returns 0 without enumerating.
C14_RejectAbove30 ==
    (pc = "returned" /\ n > 30)
        => path = "refused" /\ delivered = << >> /\ ret = 0

\* C15: whenever the estimate, 2^(N div 3) MiB, exceeds half of the
\* available memory the platform reports and the request is not refused, a
\* warning is written (and the check lets the enumeration proceed).
EstimatedMiB(nodes) == 2 ^ (nodes \div 3)
AvailableMiB(b) == b.gib * 1024 + (b.rest \div 1048576)
C15_WarnAboveHalf ==
    (/\ Applied("memoryCheck")
     /\ ~IsZeroBytes(arg.availableMemory)
     /\ out.memoryCheck.ok
     /\ EstimatedMiB(arg.n) * 2 > AvailableMiB(arg.availableMemory))
        => out.memoryCheck.cerr = "warning"

\* C16: when the request is refused for resources (N > 30, or the estimate
\* exceeds the available memory) the program exits with code 1, without
\* having enumerated.
C16_RefusalExitsOne ==
    (pc = "exited" /\ path = "refused")
        => out.exit = 1 /\ delivered = << >>

\* C17: a call on a generator that has served an earlier call gives what the
\* same call gives on a newly constructed generator: the same trees and the
\* same count on the paths that run on the calling thread, and on the
\* parallel driver one of the results a new generator can give (the trees of
\* the batches its worker processed before it was stopped).
FreshParallel(nodes, maxLeaves) ==
    LET warm == prewarmCache(Min(nodes \div 2, 15), maxLeaves,
                             EmptyCache(nodes, maxLeaves))
        all == AllPartitions(nodes, maxLeaves)
        batchSize == Max(1, Len(all) \div (MaxThreads(1, TotalMemory) * 4))
        After(j) ==
            WorkerBatch(all, maxLeaves,
                [c |-> Caches(warm, warm), results |-> << >>],
                1, Min(j * batchSize, Len(all))).results
    IN  {GlobalDedup(<<After(j)>>) :
            j \in 0..((Len(all) + batchSize - 1) \div batchSize)}
Fresh ==
    IF path = "sequential" THEN {GeneralTrees(n, m)}
    ELSE IF path = "optimized" THEN {generateAllWithCallback(n, m)}
    ELSE IF path = "parallel" THEN FreshParallel(n, m)
    ELSE {<< >>}
C17_FreshEnumeration ==
    (pc = "returned" /\ Len(out) >= 1)
        => /\ delivered \in Fresh
           /\ ret = Len(delivered) /\ count_ = ret
C17_Witness ==
    /\ pc = "returned" /\ Len(out) >= 1
    /\ out[1].path = "sequential" /\ out[1].n = RepeatN /\ out[1].ret >= 2
    /\ path = "parallel" /\ Len(delivered) >= 2

\* C18: two trees are isomorphic as unordered rooted trees (one is the other
\* with siblings reordered, at any depth) if and only if their strings after
\* sortToCanonical are equal; and Tree(children) has the same string for
\* every order of children.
RECURSIVE Isomorphic(_, _)
Isomorphic(a, b) ==
    /\ Len(a) = Len(b)
    /\ \E p \in Permutations(1..Len(a)) :
          \A i \in 1..Len(a) : Isomorphic(a[i], b[p[i]])
C18_IsomorphicIffSameString ==
    /\ Applied("sorted")
         => (Isomorphic(arg.a, arg.b)
               <=> toString(out.sorted.a) = toString(out.sorted.b))
    /\ Applied("constructed") => Cardinality(out.constructed) = 1
C18_Witness ==
    /\ Applied("sorted") /\ Applied("constructed")
    /\ Isomorphic(arg.a, arg.b) /\ toString(arg.a) # toString(arg.b)
    /\ getNodeCount(arg.a) = TreeArgN
    /\ toString(out.sorted.a) = toString(out.sorted.b)

\* C19: sortToCanonical applied twice gives the same string as applied once,
\* and it leaves the node count and the leaf count as they were.
C19_Idempotent ==
    /\ Applied("sorted")
         => /\ getNodeCount(out.sorted.a) = getNodeCount(arg.a)
            /\ getLeafCount(out.sorted.a) = getLeafCount(arg.a)
    /\ Applied("again") => toString(out.again) = toString(out.sorted.a)
C19_Witness ==
    /\ Applied("again")
    /\ toString(out.sorted.a) # toString(arg.a)
    /\ getNodeCount(arg.a) = TreeArgN /\ getLeafCount(arg.a) = 3

\* C20: on the parallel driver every partition of the work list has been
\* processed by some worker when the calling thread, having joined every
\* worker, starts the merge; under every interleaving.
C20_AllPartitionsProcessed ==
    (pc = "workers" /\ joined = maxThreads)
        => partitionsCompleted = Len(allPartitions)

\* C21: a worker of the parallel driver has left its loop only when the
\* atomic partition index has passed the end of the work list: it never
\* leaves while partitions remain unclaimed.
C21_DoneOnlyWhenExhausted ==
    pc = "workers"
        => \A t \in DOMAIN worker :
              worker[t].pc = "done" => partitionIndex >= Len(allPartitions)

\* C23: after dispatch no worker of the parallel driver writes the shared
\* cache cache_, for every M >= 0: processing a partition assigns no slot of
\* cache_ and leaves the pre-warmed snapshot as it was.
C23_WorkersLeaveSharedCache ==
    Applied("worker")
        => /\ out.worker.c.written = {}
           /\ out.worker.c.shared = Prewarmed(ParallelN, arg.m)

\* C22: every populated cache slot holds the complete list of the trees of
\* its key, the slots computed by the nested fan-out included: when the
\* fan-out has collected a non-empty result for (FanoutN, FanoutM), every
\* tree made of chains under the root, which has FanoutN nodes and at most
\* FanoutM leaves, is in it (the partition of its root was pushed).
ChainsUnder(partition) ==
    TreeOf([i \in 1..Len(partition) |-> ChainOf(partition[i])])
Range(s) == {s[i] : i \in 1..Len(s)}
C22_SlotsComplete ==
    (pc = "collected" /\ Len(out.results) > 0)
        => \A partition \in Range(ThreadPartitions(n - 1, m)) :
              (/\ getNodeCount(ChainsUnder(partition)) = n
               /\ getLeafCount(ChainsUnder(partition)) <= m)
                  => partition \in Range(out.results)

\* C24: when the caller disables parallelism, or N < 10, generate runs on
\* the calling thread only: no thread is created at any point of the call.
C24_NoThreadWhenDisabled ==
    (~useMultithreading \/ n < ParallelN) => DOMAIN worker = {}

\* C25: the threads of the nested fan-out are free of data races: no thread
\* assigns a location of cache_ while the spawning thread still reads
\* cache_ to make the copies of later threads, and no two running threads
\* assign the same location; a thread writes only its result slot and its
\* own copy.
C25_FanoutRaceFree ==
    /\ pc = "spawning" => \A k \in DOMAIN worker : ~AssignsMember(k)
    /\ \A j, k \in DOMAIN worker :
          (j # k /\ pc \in {"spawning", "workers"})
              => ~(AssignsMember(j) /\ AssignsMember(k))

\* C26: what the parallel driver emits is determined by (N, M): two calls of
\* generate with the same N and M that both took the parallel driver emit
\* the same set of trees, whatever the interleaving of their threads.
C26_SameSetSameRequest ==
    (pc = "returned" /\ path = "parallel")
        => \A k \in DOMAIN out :
              (out[k].path = "parallel" /\ out[k].n = n /\ out[k].m = m)
                  => Strings(out[k].delivered) = Strings(delivered)

\* C27: cache entries are write-once, for every key (n, maxLeaves) with
\* n >= 1 and maxLeaves >= 0: once a request has computed the key, a later
\* request for it in the same cache returns the same list and assigns no
\* slot (it computes nothing again).
C27_WriteOnce ==
    Applied("again")
        => /\ out.again.results = out.later.results
           /\ out.again.c.written = {} /\ out.again.c.stored = {}
           /\ out.again.c.local = out.later.c.local
\* the same for the keys that allow a leaf
C27_WriteOnceWithLeaves ==
    (Applied("again") /\ arg.later[2] >= 1) => C27_WriteOnce

\* C28: no partition of the work list is processed by two workers.  The
\* ranges [startIdx, endIdx) the workers hold are pairwise disjoint and lie
\* below the atomic index, from which every later range starts; as many
\* partitions have been processed as indexes of the list have been handed
\* out, so none was processed twice; and partitionsCompleted never exceeds
\* the number of partitions.
Claimed(t) == worker[t].startIdx .. (worker[t].endIdx - 1)
C28_DisjointRanges ==
    pc = "workers"
        => /\ \A s, t \in DOMAIN worker :
                 s # t => Claimed(s) \cap Claimed(t) = {}
           /\ \A t \in DOMAIN worker : worker[t].endIdx <= partitionIndex
           /\ partitionsCompleted = Min(partitionIndex, Len(allPartitions))
           /\ partitionsCompleted <= Len(allPartitions)
C28_Witness ==
    /\ pc = "workers" /\ maxThreads = 2
    /\ \A t \in DOMAIN worker : Claimed(t) # {}
    /\ partitionsCompleted = Len(allPartitions)
    /\ partitionIndex > Len(allPartitions)

\* C29: generate on the parallel driver terminates.  Once the workers are
\* launched, every worker reaches done, and the call returns with the
\* progress reporter joined; and the step that returns is taken only when
\* every worker has been joined and the reporter, its stop requested, has
\* ended: no thread outlives the call.
C29_ParallelTerminates ==
    /\ (pc = "workers")
          ~> (pc = "workers" /\ \A t \in DOMAIN worker : worker[t].pc = "done")
    /\ (pc = "workers") ~> (pc = "returned" /\ progressThread = "joined")
    /\ [][pc' = "returned"
            => \/ pc = "constructed"
               \/ /\ pc = "merged" /\ joined = maxThreads
                  /\ \A t \in DOMAIN worker : worker[t].pc = "done"
                  /\ progressThread = "exited"]_vars
C29_Witness ==
    /\ pc = "returned" /\ path = "parallel" /\ progressThread = "joined"
    /\ n = ParallelN /\ Len(delivered) = 1

\* C30: the cap maxChildren = min(N-1, max(20, 5M)) of the parallel driver
\* loses no solution, for every (N, M) routed to the driver.  The root of a
\* tree with at most M leaves has at most M children (each child's subtree
\* holds a leaf), and every such number of children is within the cap; and
\* the work list holds the sizes of the root's children of every tree with N
\* nodes and at most M leaves.
RootPartition(t) == SortDesc([i \in 1..Len(t) |-> getNodeCount(t[i])])
C30_CapLosesNoSolution ==
    /\ Applied("maxChildren")
         => \A numChildren \in 1..(arg.n - 1) :
               numChildren <= arg.m => numChildren <= out.maxChildren
    /\ Applied("allPartitions")
         => \A t \in RefTrees(arg.n, arg.m) :
               /\ Len(t) <= RefLeaves(t)
               /\ \E i \in 1..Len(out.allPartitions) :
                     out.allPartitions[i][2] = RootPartition(t)
C30_Witness ==
    /\ Applied("maxChildren") /\ out.maxChildren < arg.n - 1
    /\ arg.m = 5 /\ arg.n <= RefusedN - 1

\* The partitions of k, built without generatePartitions: a partition of
\* k >= 1 arises from one of k - 1 by a new part 1 or by adding 1 to a part.
RECURSIVE RefPartitions(_)
RefPartitions(k) ==
    IF k = 0 THEN {<< >>}
    ELSE UNION {{SortDesc(Append(p, 1))}
                \cup {SortDesc([p EXCEPT ![i] = @ + 1]) : i \in 1..Len(p)} :
                p \in RefPartitions(k - 1)}

\* C31: generatePartitions(n, k) produces exactly the non-increasing
\* sequences of exactly k positive integers that sum to n; so n = 0, k = 0
\* gives one empty sequence, n > 0 with k = 0 nothing, and k > n nothing.
C31_ExactlyKParts ==
    Applied("partitions")
        => /\ Range(out.partitions) = {p \in RefPartitions(arg.n) : Len(p) = arg.k}
           /\ (arg.k > arg.n => Len(out.partitions) = 0)

\* C32: generatePartitions(n, k) generates the partitions of n into at most
\* k parts: every result is a non-increasing sequence of positive integers
\* with sum n and at most k entries, every such sequence is among the
\* results, and none of them twice.
C32_AtMostKParts ==
    Applied("partitions")
        => /\ Range(out.partitions)
                = {p \in RefPartitions(arg.n) : Len(p) <= arg.k}
           /\ Cardinality(Range(out.partitions)) = Len(out.partitions)
C32_Witness ==
    /\ Applied("partitions") /\ arg.n = PartArgN /\ arg.k = 3
    /\ \E i, j \in 1..Len(out.partitions) :
          Len(out.partitions[i]) = 1 /\ Len(out.partitions[j]) = 3

\* C33: the leaf-sum pruning of generateCombinations never changes the
\* result: what it pushes is, in order, the roots of the full Cartesian
\* product of the child lists (first child varying slowest) whose total leaf
\* count is at most maxLeaves.
CartesianProduct(childTrees) ==
    LET k == Len(childTrees)
        Suffix[i \in 1..(k + 1)] ==
            IF i = k + 1 THEN 1 ELSE Len(childTrees[i]) * Suffix[i + 1]
    IN  [c \in 1..Suffix[1] |->
            [i \in 1..k |->
                childTrees[i][(((c - 1) \div Suffix[i + 1])
                               % Len(childTrees[i])) + 1]]]
ProductWithin(childTrees, maxLeaves) ==
    LET product == CartesianProduct(childTrees)
        Within(c) == RefLeaves(TreeOf(product[c])) <= maxLeaves
        kept == SelectSeq([c \in 1..Len(product) |-> c], Within)
    IN  [j \in 1..Len(kept) |-> TreeOf(product[kept[j]])]
C33_PruningKeepsResult ==
    Applied("combinations")
        => out.combinations = ProductWithin(arg.childTrees, arg.maxLeaves)
C33_Witness ==
    /\ Applied("combinations") /\ Len(arg.partition) = 2
    /\ \E i \in 1..Len(arg.childTrees[1]) :
          RefLeaves(arg.childTrees[1][i]) > arg.maxLeaves
    /\ Len(out.combinations) >= 1
    /\ Len(out.combinations) < Len(CartesianProduct(arg.childTrees))

\* C36: for every n >= 1 generateTwoLeaves yields floor((n-1)/2) trees, each
\* a root with two chain children of sizes a >= b >= 1 with a + b = n - 1,
\* and no two of them are the same tree.
RECURSIVE IsChain(_)
IsChain(t) == Len(t) = 0 \/ (Len(t) = 1 /\ IsChain(t[1]))
C36_TwoLeavesCount ==
    (Applied("twoLeaves") /\ arg.n >= 1)
        => /\ Len(out.twoLeaves) = (arg.n - 1) \div 2
           /\ \A i \in 1..Len(out.twoLeaves) :
                 LET t == out.twoLeaves[i]
                 IN  /\ Len(t) = 2 /\ IsChain(t[1]) /\ IsChain(t[2])
                     /\ getNodeCount(t[1]) >= 1 /\ getNodeCount(t[2]) >= 1
                     /\ getNodeCount(t[1]) + getNodeCount(t[2]) = arg.n - 1
           /\ Cardinality(Strings(out.twoLeaves)) = Len(out.twoLeaves)
C36_Witness ==
    /\ Applied("twoLeaves") /\ arg.n = TwoArgN
    /\ Len(out.twoLeaves) = (TwoArgN - 1) \div 2
    /\ \E i \in 1..Len(out.twoLeaves) :
          getNodeCount(out.twoLeaves[i][1]) = getNodeCount(out.twoLeaves[i][2]) + 1

\* C37: generateIntegerPartitions(n, k, minPart) returns exactly the
\* non-increasing sequences of exactly k parts, each at least minPart, with
\* sum n, for all n, k >= 0 in size_t arithmetic; and it terminates with an
\* empty result when n < k * minPart.
ExactParts(total, parts, minPart) ==
    {p \in RefPartitions(total) :
        Len(p) = parts /\ \A i \in 1..Len(p) : p[i] >= minPart}
C37_ExactPartsWrapping ==
    Applied("integerPartitions")
        => /\ out.integerPartitions.terminates
           /\ Range(out.integerPartitions.result)
                = ExactParts(arg.n, arg.k, arg.minPart)
           /\ Cardinality(Range(out.integerPartitions.result))
                = Len(out.integerPartitions.result)
           /\ (arg.n < arg.k * arg.minPart
                 => Len(out.integerPartitions.result) = 0)
\* the same for the calls with n >= (k - 1) * minPart, where the
\* subtraction in maxPart does not wrap
C37_ExactPartsInRange ==
    (Applied("integerPartitions") /\ arg.n >= (arg.k - 1) * arg.minPart)
        => C37_ExactPartsWrapping

\* C35: every tree returned by generateWithExactLeaves(n, k), with the
\* specialized constructions (k <= 4) and with the generic one (k >= 5), has
\* exactly n nodes and exactly k leaves and is in canonical form, and no two
\* trees of the list have the same canonical string.
C35_ExactLeavesSound ==
    Applied("exactLeaves")
        => /\ \A i \in 1..Len(out.exactLeaves) :
                 LET t == out.exactLeaves[i]
                 IN  /\ getNodeCount(t) = arg.n /\ RefLeaves(t) = arg.k
                     /\ sortToCanonical(t) = t
           /\ Cardinality(Strings(out.exactLeaves)) = Len(out.exactLeaves)
C35_Witness ==
    /\ Applied("exactLeaves") /\ arg.n = ExactArgN /\ arg.k = 5
    /\ Len(out.exactLeaves) >= 3

\* the collecting loop is about to assign cache[x][leafCount] while a worker
\* that has not returned is about to read that slot: its next call of
\* generateWithExactLeavesGeneric(nodeCount, leafCount) looks up
\* cache[nodeCount - 1][leafCount] for the root with one child
RacingRead ==
    /\ pc = "async" /\ joined < arg.numCores
    /\ worker[joined + 1].pc = "done"
    /\ \E u \in DOMAIN worker :
           /\ worker[u].pc = "generate"
           /\ \E i \in 1..Len(threadResults[joined + 1]) :
                  threadResults[joined + 1][i][1] = worker[u].nodeCount - 1
\* buildCacheParallel has returned with every slot equal to what the
\* sequential generateWithExactLeaves returns
SlotsAsSequential ==
    \A k \in 1..arg.maxK : \A nodes \in k..arg.maxN :
        Strings(cache_[nodes][k]) = Strings(generateWithExactLeaves(nodes, k))
\* C34: under every interleaving of the workers and the collecting loop,
\* buildCacheParallel(maxN, maxK) leaves in each slot cache[n][k], 1 <= k <=
\* maxK and k <= n <= maxN, the set of trees the sequential
\* generateWithExactLeaves(n, k) returns, levels k >= 5 included, and no
\* worker reads a slot while another thread writes it.
C34_ParallelCacheAsSequential ==
    /\ (pc = "returned" => SlotsAsSequential)
    /\ ~RacingRead

====
